---- MODULE Spec2Model ----
(***************************************************************************)
(* Model of the subs.ro Stremio addon: the per-credential rate limiter     *)
(* (src/lib/rateLimiter.js), the subtitles lookup handler (src/addon.js),  *)
(* the upstream client (src/unnamed/part_005) and the caption proxy        *)
(* (src/unnamed/part_004).                                                  *)
(*                                                                         *)
(* One action is one macrotask of the Node event loop: a request handler's *)
(* synchronous part, a timer tick, or the arrival of an upstream response  *)
(* together with every promise continuation it triggers.                   *)
(***************************************************************************)
EXTENDS Integers, Sequences, FiniteSets, TLC

VARIABLES
  now,        \* Date.now(), in milliseconds
  advances,   \* number of clock advances taken so far (model bound only)
  lim,        \* limiter instances ever constructed; lim[G] is globalLimiter
  limiters,   \* RateLimiterManager.limiters: instance ids in Map insertion order
  reqs,       \* every request ever enqueued on a lane, in enqueue order
  CACHE,            \* addon.js CACHE: request key -> {data, timestamp, ttl}
  PENDING_REQUESTS, \* addon.js PENDING_REQUESTS: request key -> fetchTask (a run id)
  ARCHIVE_CACHE,    \* archiveCache ARCHIVE_CACHE: subtitle id -> archive entry
  runs,       \* every fetchTask ever started
  calls,      \* every subtitlesHandler call ever made
  vttStore,   \* proxy _vttStore: caption key -> {vtt, timestamp}
  vttOrder,   \* proxy _vttOrder: caption keys, least recently used first
  proxies,    \* every caption-delivery request ever made
  applied     \* the latest application of a pure function: name, arguments, result

vars == <<now, advances, lim, limiters, reqs, CACHE, PENDING_REQUESTS,
          ARCHIVE_CACHE, runs, calls, vttStore, vttOrder, proxies, applied>>

(***************************************************************************)
(* Bounds of the model                                                     *)
(***************************************************************************)
StartTime == 5000000
MaxAdvance == 2
MaxCalls == 3
MaxFailureAdvance == 2
MaxFailureCalls == 3
MaxSearchAdvance == 2
MaxReqs == 3
MaxIdleAdvance == 1
MaxRegistryReqs == 4
MaxDownloadAdvance == 3
MaxProxies == 4

(***************************************************************************)
(* Program constants                                                       *)
(***************************************************************************)
interval == 1000
maxConcurrent == 3
staggerMs == 200
timeout == 30000
maxRetries == 2
\* the registry ceiling is 500 in the source; it is scaled down so that
\* capacity eviction happens with three credentials
maxLimiters == 2
idleTimeoutMs == 1800000

ApiKeys == {"k1", "k2", "k3"}
Transient == {"ECONNRESET", "ETIMEDOUT", "ECONNABORTED"}
Statuses == {"401", "404", "429", "500"}
\* what the upstream does with one GET: a 2xx answer with a well-formed body
\* ("ok") or a malformed one ("corrupt"), a network error code, an error status
Outcomes == {"ok", "corrupt"} \cup Transient \cup Statuses

Succeeds(o) == o \in {"ok", "corrupt"}

G == 1

(***************************************************************************)
(* Sequence helpers                                                        *)
(***************************************************************************)
Range(s) == {s[i] : i \in DOMAIN s}

Remove(s, x) == SelectSeq(s, LAMBDA y : y # x)

(***************************************************************************)
(* SubsRoRateLimiter                                                       *)
(***************************************************************************)
\* the constructor; nStarts, prevStart and minGap are history fields of the
\* model (per lane: number of executions started, time of the latest start,
\* smallest gap between two consecutive starts, None while there is none)
None == -1

NewLimiter(apiKey, t) ==
  [apiKey |-> apiKey, lastUsed |-> t, alive |-> TRUE,
   squeue |-> <<>>, processing |-> FALSE, lastRequest |-> 0,
   dqueue |-> <<>>, activeCount |-> 0, lastStart |-> 0,
   nStarts |-> [SEARCH |-> 0, DOWNLOAD |-> 0],
   prevStart |-> [SEARCH |-> None, DOWNLOAD |-> None],
   minGap |-> [SEARCH |-> None, DOWNLOAD |-> None]]

\* a queue item {url, options, resolve, reject, retries}; st is the item's
\* position (queued, executing, resolved, rejected, cancelled), start the time
\* its current execution began, first the rank of its first execution among
\* the executions of its lane (0 before it), attempts the number of its
\* executions and last the outcome of the latest one (history fields)
NewRequest(i, lane, owner) ==
  [lim |-> i, lane |-> lane, owner |-> owner, retries |-> 0,
   st |-> "queued", start |-> 0, first |-> 0, attempts |-> 0, last |-> "none"]

\* history bookkeeping of one execution start on a lane at time t
Started(l, lane, t) ==
  [l EXCEPT !.nStarts[lane] = @ + 1,
            !.prevStart[lane] = t,
            !.minGap[lane] =
               IF l.prevStart[lane] = None THEN @
               ELSE IF @ = None \/ t - l.prevStart[lane] < @
                    THEN t - l.prevStart[lane] ELSE @]

Begin(r, l, lane, t) ==
  [r EXCEPT !.st = "executing", !.start = t, !.attempts = @ + 1,
            !.first = IF @ = 0 THEN l.nStarts[lane] + 1 ELSE @]

\* destroy(): both intervals are cleared; queues and executing requests stay
Destroy(l) == [l EXCEPT !.alive = FALSE]

\* searchRequest() with unshift in place of push
SearchRequestAtFront(S, i, owner) ==
  LET q == Len(S.reqs) + 1 IN
  [S EXCEPT !.lim[i].lastUsed = S.now,
            !.lim[i].squeue = <<q>> \o @,
            !.reqs = Append(@, NewRequest(i, "SEARCH", owner))]

\* searchRequest(): touches lastUsed and pushes at the back of the search queue
SearchRequest(S, i, owner) ==
  LET q == Len(S.reqs) + 1 IN
  [S EXCEPT !.lim[i].lastUsed = S.now,
            !.lim[i].squeue = Append(@, q),
            !.reqs = Append(@, NewRequest(i, "SEARCH", owner))]

\* downloadArchive(): touches lastUsed and pushes at the back of the download queue
DownloadArchive(S, i, owner) ==
  LET q == Len(S.reqs) + 1 IN
  [S EXCEPT !.lim[i].lastUsed = S.now,
            !.lim[i].dqueue = Append(@, q),
            !.reqs = Append(@, NewRequest(i, "DOWNLOAD", owner))]

\* processSearchQueue without its interval test
SearchMayStartNoInterval(l, t) ==
  /\ Len(l.squeue) > 0
  /\ ~l.processing

\* the guard of processSearchQueue: its three early returns
SearchMayStart(l, t) ==
  /\ Len(l.squeue) > 0
  /\ ~l.processing
  /\ t - l.lastRequest >= interval

\* processDownloadQueue without its stagger test
DownloadMayStartNoStagger(l, t) ==
  /\ Len(l.dqueue) > 0
  /\ l.activeCount < maxConcurrent

\* processDownloadQueue without its concurrency test
DownloadMayStartNoCap(l, t) ==
  /\ Len(l.dqueue) > 0
  /\ t - l.lastStart >= staggerMs

\* the guard of processDownloadQueue: its three early returns
DownloadMayStart(l, t) ==
  /\ Len(l.dqueue) > 0
  /\ l.activeCount < maxConcurrent
  /\ t - l.lastStart >= staggerMs

\* a classification that also takes a quota answer for transient
IsTransientOrQuota(o) == o \in Transient \cup {"429"}

\* executeRequest's classification of an error in its catch block
IsTransient(o) == o \in Transient

\* a retry test with <= in place of <
WillRetryInclusive(o, retries) == IsTransient(o) /\ retries <= maxRetries

\* executeRequest's decision in its catch block: retry or reject
WillRetry(o, retries) == IsTransient(o) /\ retries < maxRetries

\* a retry that pushes the request at the back of its queue
RequeueAtBack(l, lane, q) ==
  IF lane = "SEARCH" THEN [l EXCEPT !.squeue = Append(@, q)]
  ELSE [l EXCEPT !.dqueue = Append(@, q)]

\* the retry branch: queue.unshift(request) on the request's own lane
Requeue(l, lane, q) ==
  IF lane = "SEARCH" THEN [l EXCEPT !.squeue = <<q>> \o @]
  ELSE [l EXCEPT !.dqueue = <<q>> \o @]

\* a download lane whose .finally() does not give the slot back
ReleaseKeepingSlot(l, lane) ==
  IF lane = "SEARCH" THEN [l EXCEPT !.processing = FALSE]
  ELSE l

\* the lane's bookkeeping once executeRequest has returned:
\* processSearchQueue's finally, processDownloadQueue's .finally()
Release(l, lane) ==
  IF lane = "SEARCH" THEN [l EXCEPT !.processing = FALSE]
  ELSE [l EXCEPT !.activeCount = @ - 1]

\* an executeRequest whose retry branch does not return: the request goes
\* back into its queue and is rejected as well
ExecutedRejectingRetries(S, q, o) ==
  LET r == S.reqs[q]
      i == r.lim
  IN IF Succeeds(o)
     THEN [S EXCEPT !.reqs[q].st = "resolved",
                    !.reqs[q].last = o,
                    !.lim[i] = Release(@, r.lane)]
     ELSE IF WillRetry(o, r.retries)
     THEN [S EXCEPT !.reqs[q].st = "rejected",
                    !.reqs[q].retries = @ + 1,
                    !.reqs[q].last = o,
                    !.lim[i] = Release(Requeue(@, r.lane, q), r.lane)]
     ELSE [S EXCEPT !.reqs[q].st = "rejected",
                    !.reqs[q].last = o,
                    !.lim[i] = Release(@, r.lane)]

\* executeRequest after the upstream answered with outcome o, followed by the
\* lane's release; the caller's continuation is applied by the actions below
Executed(S, q, o) ==
  LET r == S.reqs[q]
      i == r.lim
  IN IF Succeeds(o)
     THEN [S EXCEPT !.reqs[q].st = "resolved",
                    !.reqs[q].last = o,
                    !.lim[i] = Release(@, r.lane)]
     ELSE IF WillRetry(o, r.retries)
     THEN [S EXCEPT !.reqs[q].st = "queued",
                    !.reqs[q].retries = @ + 1,
                    !.reqs[q].last = o,
                    !.lim[i] = Release(Requeue(@, r.lane, q), r.lane)]
     ELSE [S EXCEPT !.reqs[q].st = "rejected",
                    !.reqs[q].last = o,
                    !.lim[i] = Release(@, r.lane)]

(***************************************************************************)
(* RateLimiterManager                                                      *)
(***************************************************************************)
Lookup(S, apiKey) ==
  {i \in Range(S.limiters) : S.lim[i].apiKey = apiKey}

\* evictOldest() taking the first entry of the Map
OldestIndexFirst(S) == 1

\* evictOldest(): the first entry, in Map order, with the smallest lastUsed
OldestIndex(S) ==
  CHOOSE n \in DOMAIN S.limiters :
    /\ \A m \in DOMAIN S.limiters :
         S.lim[S.limiters[n]].lastUsed <= S.lim[S.limiters[m]].lastUsed
    /\ \A m \in DOMAIN S.limiters :
         m < n => S.lim[S.limiters[m]].lastUsed > S.lim[S.limiters[n]].lastUsed

EvictOldest(S) ==
  IF S.limiters = <<>> THEN S
  ELSE LET i == S.limiters[OldestIndex(S)] IN
       [S EXCEPT !.lim[i] = Destroy(@),
                 !.limiters = Remove(@, i)]

\* the capacity test with > in place of >=
AtCapacityStrict(S) == Len(S.limiters) > maxLimiters

\* getLimiter(): this.limiters.size >= this.maxLimiters
AtCapacity(S) == Len(S.limiters) >= maxLimiters

\* getLimiter(): returns the state after the call; the limiter it returns is
\* the last one of Lookup (LimiterOf below)
GetLimiter(S, apiKey) ==
  IF Lookup(S, apiKey) # {}
  THEN LET i == CHOOSE j \in Lookup(S, apiKey) : TRUE IN
       [S EXCEPT !.lim[i].lastUsed = S.now]
  ELSE LET E == IF AtCapacity(S) THEN EvictOldest(S) ELSE S
           i == Len(E.lim) + 1
       IN [E EXCEPT !.lim = Append(@, NewLimiter(apiKey, S.now)),
                    !.limiters = Append(@, i)]

LimiterOf(S, apiKey) == CHOOSE j \in Lookup(S, apiKey) : TRUE

\* cleanup(): destroys and removes every limiter idle for more than the timeout
IsIdle(l, t) == t - l.lastUsed > idleTimeoutMs

CleanupState(S) ==
  LET idle == {i \in Range(S.limiters) : IsIdle(S.lim[i], S.now)} IN
  [S EXCEPT !.lim = [i \in DOMAIN S.lim |->
                        IF i \in idle THEN Destroy(S.lim[i]) ELSE S.lim[i]],
            !.limiters = SelectSeq(@, LAMBDA i : i \notin idle)]


(***************************************************************************)
(* The upstream catalog: what subs.ro holds.  Text is a tuple of characters *)
(***************************************************************************)
PathA == <<"M", "o", "v", "i", "e", ".", "A", "-", "G", "R", "P", ".", "s", "r", "t">>
PathB == <<"M", "o", "v", "i", "e", ".", "B", ".", "S", "R", "T">>
PathC == <<"r", "e", "a", "d", "m", "e", ".", "t", "x", "t">>
TextA == <<"1", "\n", "0", "0", ":", "0", "1", ":", "0", "2", ",", "3", "4", "5", "\r", "\n", "H", "i">>
TextB == <<"B">>
TitleS02E05 == <<"S", "h", "o", "w", ".", "S", "0", "2", "E", "0", "5", ".", "7", "2", "0", "p">>
Title1x05 == <<"S", "h", "o", "w", " ", "1", "x", "0", "5">>

\* GET /search/imdbid/{id}: the items of a title
Catalog(imdbId) ==
  CASE imdbId = "tt1" -> <<[id |-> 1, language |-> "ro"], [id |-> 2, language |-> "alt"]>>
    [] imdbId = "tt2" -> <<>>
    [] imdbId = "tt4" ->
         <<[id |-> 3, language |-> "ro", title |-> TitleS02E05, description |-> <<>>],
           [id |-> 4, language |-> "ro", title |-> Title1x05, description |-> <<>>],
           [id |-> 2, language |-> "alt", title |-> TitleS02E05, description |-> <<>>]>>
    [] OTHER -> <<[id |-> 2, language |-> "alt"]>>

\* GET /subtitle/{id}/download: the archive of a subtitle id, as its entries
Archive(subId) ==
  CASE subId = 1 -> <<[entryName |-> PathA, isDirectory |-> FALSE, data |-> TextA],
                      [entryName |-> PathC, isDirectory |-> FALSE, data |-> TextB]>>
    [] subId = 3 -> <<[entryName |-> <<"S", "h", "o", "w", ".", "S", "0", "1", "E", "0", "5", ".", "s", "r", "t">>, isDirectory |-> FALSE, data |-> TextB],
                      [entryName |-> <<"S", "h", "o", "w", ".", "S", "0", "2", "E", "0", "5", ".", "s", "r", "t">>, isDirectory |-> FALSE, data |-> TextB]>>
    [] subId = 4 -> <<[entryName |-> <<"S", "h", "o", "w", ".", "S", "0", "1", "E", "0", "5", ".", "s", "r", "t">>, isDirectory |-> FALSE, data |-> TextB]>>
    [] OTHER -> <<[entryName |-> PathB, isDirectory |-> FALSE, data |-> TextB]>>

\* the bytes a download resolves with
Buffer(subId, o) ==
  IF o = "ok" THEN [valid |-> TRUE, kind |-> "zip", entries |-> Archive(subId)]
  ELSE [valid |-> FALSE, kind |-> "zip", entries |-> <<>>]

(***************************************************************************)
(* JavaScript Maps as functions with a growing domain                      *)
(***************************************************************************)
EmptyMap == [x \in {} |-> 0]

Has(m, k) == k \in DOMAIN m

Put(m, k, v) == [x \in DOMAIN m \cup {k} |-> IF x = k THEN v ELSE m[x]]

Del(m, k) == [x \in DOMAIN m \ {k} |-> m[x]]

\* a promise's state
Unsettled == [settled |-> FALSE]

Resolved(v) == [settled |-> TRUE, ok |-> TRUE, value |-> v]

Rejected(e) == [settled |-> TRUE, ok |-> FALSE, error |-> e]

(***************************************************************************)
(* The heap as one record, so that handlers compose as functions           *)
(***************************************************************************)
Heap ==
  [now |-> now, lim |-> lim, limiters |-> limiters, reqs |-> reqs,
   CACHE |-> CACHE, PENDING_REQUESTS |-> PENDING_REQUESTS,
   ARCHIVE_CACHE |-> ARCHIVE_CACHE, runs |-> runs, calls |-> calls,
   vttStore |-> vttStore, vttOrder |-> vttOrder, proxies |-> proxies]

Install(S) ==
  /\ lim' = S.lim
  /\ limiters' = S.limiters
  /\ reqs' = S.reqs
  /\ CACHE' = S.CACHE
  /\ PENDING_REQUESTS' = S.PENDING_REQUESTS
  /\ ARCHIVE_CACHE' = S.ARCHIVE_CACHE
  /\ runs' = S.runs
  /\ calls' = S.calls
  /\ vttStore' = S.vttStore
  /\ vttOrder' = S.vttOrder
  /\ proxies' = S.proxies
  /\ applied' = applied

(***************************************************************************)
(* archiveUtils.js                                                         *)
(***************************************************************************)
Lower(c) ==
  CASE c = "S" -> "s" [] c = "R" -> "r" [] c = "T" -> "t" [] OTHER -> c

EndsWithSrt(name) ==
  /\ Len(name) >= 4
  /\ [i \in 1..4 |-> Lower(name[Len(name) - 4 + i])] = <<".", "s", "r", "t">>

Macosx == <<"_", "_", "M", "A", "C", "O", "S", "X">>

Includes(text, part) ==
  \E i \in 0..(Len(text) - Len(part)) :
    \A j \in 1..Len(part) : text[i + j] = part[j]

IsSrtEntry(e) ==
  ~e.isDirectory /\ ~Includes(e.entryName, Macosx) /\ EndsWithSrt(e.entryName)

RECURSIVE SrtNames(_)
SrtNames(entries) ==
  IF entries = <<>> THEN <<>>
  ELSE (IF IsSrtEntry(Head(entries)) THEN <<Head(entries).entryName>> ELSE <<>>)
       \o SrtNames(Tail(entries))

\* listSrtFiles(): the names of the caption entries; a malformed archive throws
ListSrtFilesThrows(buffer) == ~buffer.valid

ListSrtFiles(buffer) == SrtNames(buffer.entries)

\* extractSrtFile(): the data of the entry of that exact name, or null
HasEntry(buffer, srtPath) ==
  \E n \in DOMAIN buffer.entries : buffer.entries[n].entryName = srtPath

ExtractSrtFile(buffer, srtPath) ==
  buffer.entries[CHOOSE n \in DOMAIN buffer.entries :
                    buffer.entries[n].entryName = srtPath].data

(***************************************************************************)
(* matcher: calculateMatchScore.  The release group, the quality tags and  *)
(* fuzzball's token_set_ratio are tabulated for the names of this model    *)
(***************************************************************************)
Video1 == <<"M", "o", "v", "i", "e", ".", "A", ".", "W", "E", "B", "R", "i", "p", "-", "G", "R", "P", ".", "m", "k", "v">>
Video2 == <<"X", "-", "B", ".", "m", "k", "v">>
PathW == <<"A", ".", "W", "E", "B", "R", "i", "p", "-", "G", "R", "P", ".", "s", "r", "t">>

Upper(c) ==
  CASE c = "o" -> "O" [] c = "v" -> "V" [] c = "i" -> "I" [] c = "e" -> "E"
    [] c = "s" -> "S" [] c = "r" -> "R" [] c = "t" -> "T" [] c = "p" -> "P"
    [] c = "m" -> "M" [] c = "k" -> "K" [] c = "a" -> "A" [] c = "d" -> "D"
    [] c = "x" -> "X" [] OTHER -> c

ToUpper(text) == [i \in DOMAIN text |-> Upper(text[i])]

GRP == <<"G", "R", "P">>

getReleaseGroup(filename) ==
  CASE filename = Video1 -> GRP
    [] filename = PathA -> GRP
    [] filename = PathB -> <<"M", "O", "V", "I", "E">>
    [] filename = PathC -> <<"R", "E", "A", "D", "M", "E">>
    [] filename = PathW -> GRP
    [] filename = Video2 -> <<"B">>
    [] OTHER -> <<>>

getQualityTags(filename) ==
  IF filename = Video1 THEN {<<"W", "E", "B", "R", "I", "P">>} ELSE {}

token_set_ratio(a, b) ==
  CASE a = Video1 /\ b = PathA -> 85
    [] a = Video1 /\ b = PathB -> 50
    [] OTHER -> 0

Min(a, b) == IF a <= b THEN a ELSE b

\* Math.round(x * 0.2) for an integer x >= 0
RoundFifth(x) == (2 * x + 5) \div 10

\* the three additions of calculateMatchScore, fuzzyScore being what
\* fuzz.token_set_ratio returned
WeightedScore(videoFilename, subtitleFilename, fuzzyScore) ==
  LET vGroup == getReleaseGroup(videoFilename)
      sGroup == getReleaseGroup(subtitleFilename)
      subNormalized == ToUpper(subtitleFilename)
      hasGroupMatch ==
        \/ vGroup # <<>> /\ sGroup # <<>> /\ vGroup = sGroup
        \/ vGroup # <<>> /\ Includes(subNormalized, vGroup)
      hasSourceMatch ==
        \E tag \in getQualityTags(videoFilename) : Includes(subNormalized, tag)
  IN Min(100, (IF hasGroupMatch THEN 50 ELSE 0)
              + (IF hasSourceMatch THEN 30 ELSE 0)
              + Min(20, RoundFifth(fuzzyScore)))

\* calculateMatchScore without its first line
ScoreUnguarded(videoFilename, subtitleFilename, fuzzyScore) ==
  WeightedScore(videoFilename, subtitleFilename, fuzzyScore)

\* calculateMatchScore, given the value of fuzz.token_set_ratio for the pair
Score(videoFilename, subtitleFilename, fuzzyScore) ==
  IF videoFilename = <<>> \/ subtitleFilename = <<>> THEN 0
  ELSE WeightedScore(videoFilename, subtitleFilename, fuzzyScore)

calculateMatchScore(videoFilename, subtitleFilename) ==
  Score(videoFilename, subtitleFilename,
        token_set_ratio(videoFilename, subtitleFilename))

(***************************************************************************)
(* matcher: matchesEpisode.  A regular expression is an operator that      *)
(* looks for a position of the text at which its parts follow one another  *)
(***************************************************************************)
LowerLetters ==
  <<"a", "b", "c", "d", "e", "f", "g", "h", "i", "j", "k", "l", "m",
    "n", "o", "p", "q", "r", "s", "t", "u", "v", "w", "x", "y", "z">>

DecimalDigits == <<"0", "1", "2", "3", "4", "5", "6", "7", "8", "9">>

\* text.toLowerCase()
ToLowerCase(text) ==
  LET UpperLetters ==
        <<"A", "B", "C", "D", "E", "F", "G", "H", "I", "J", "K", "L", "M",
          "N", "O", "P", "Q", "R", "S", "T", "U", "V", "W", "X", "Y", "Z">>
  IN [i \in DOMAIN text |->
        IF \E n \in DOMAIN UpperLetters : UpperLetters[n] = text[i]
        THEN LowerLetters[CHOOSE n \in DOMAIN UpperLetters : UpperLetters[n] = text[i]]
        ELSE text[i]]

\* \d and \s at position i of the text; no position outside the text holds a
\* character
DigitAt(text, i) ==
  i \in DOMAIN text /\ \E n \in DOMAIN DecimalDigits : DecimalDigits[n] = text[i]

SpaceAt(text, i) == i \in DOMAIN text /\ text[i] \in {" ", "\t", "\n", "\r"}

\* the literal lit starts at position i
LiteralAt(text, i, lit) ==
  /\ i >= 1
  /\ i + Len(lit) - 1 <= Len(text)
  /\ SubSeq(text, i, i + Len(lit) - 1) = lit

Positions(text) == 1 .. Len(text) + 1

\* \s* takes the text from position i up to position j
SpacesBetween(text, i, j) == i <= j /\ \A k \in i .. j - 1 : SpaceAt(text, k)

\* \d+ takes the text from position i up to position j
DigitsBetween(text, i, j) == i < j /\ \A k \in i .. j - 1 : DigitAt(text, k)

\* the keywords of the patterns that an ASCII text can contain
seasonKeywords ==
  {<<"s", "e", "a", "s", "o", "n">>,
   <<"s", "e", "z", "o", "n">>,
   <<"s", "t", "a", "g", "i", "o", "n", "e">>,
   <<"s", "a", "i", "s", "o", "n">>,
   <<"s", "t", "a", "f", "f", "e", "l">>,
   <<"t", "e", "m", "p", "o", "r", "a", "d", "a">>}

episodeKeywords ==
  {<<"e", "p", "i", "s", "o", "d", "e">>,
   <<"e", "p", "i", "s", "o", "d">>,
   <<"e", "p", "i", "s", "o", "d", "i", "o">>,
   <<"f", "o", "l", "g", "e">>}

\* /s\d+e\d+|\d+x\d+|(?:season|...)\s*\d+/i
seasonIndicatorRegex(text) ==
  \/ \E i \in DOMAIN text :
       /\ text[i] = "s"
       /\ \E j \in Positions(text) :
            /\ DigitsBetween(text, i + 1, j)
            /\ LiteralAt(text, j, <<"e">>)
            /\ DigitAt(text, j + 1)
  \/ \E i \in DOMAIN text :
       text[i] = "x" /\ DigitAt(text, i - 1) /\ DigitAt(text, i + 1)
  \/ \E kw \in seasonKeywords, i \in DOMAIN text :
       /\ LiteralAt(text, i, kw)
       /\ \E j \in Positions(text) :
            SpacesBetween(text, i + Len(kw), j) /\ DigitAt(text, j)

\* matchesEpisode(); None stands for an episode that is null or undefined
matchesEpisode(text, season, episode) ==
  LET normalizedText == ToLowerCase(text)
      \* String(n) and String(n).padStart(2, "0") for 0 <= n <= 99
      String(n) ==
        IF n < 10 THEN <<DecimalDigits[n + 1]>>
        ELSE <<DecimalDigits[(n \div 10) + 1], DecimalDigits[(n % 10) + 1]>>
      PadStart2(n) == IF n < 10 THEN <<"0">> \o String(n) ELSE String(n)
      s == PadStart2(season)
      e == PadStart2(episode)
      sShort == String(season)
      eShort == String(episode)
      \* \w at position i, and \b before position i
      WordAt(i) ==
        /\ i \in DOMAIN normalizedText
        /\ \/ DigitAt(normalizedText, i)
           \/ normalizedText[i] = "_"
           \/ \E n \in DOMAIN LowerLetters : normalizedText[i] = LowerLetters[n]
      BoundaryAt(i) == WordAt(i - 1) # WordAt(i)
      At(i, lit) == LiteralAt(normalizedText, i, lit)
      Spaces(i, j) == SpacesBetween(normalizedText, i, j)
      \* .*? takes the text from position i up to position j
      AnyBetween(i, j) ==
        i <= j /\ \A k \in i .. j - 1 : normalizedText[k] \notin {"\n", "\r"}
      P == Positions(normalizedText)
      \* new RegExp(`s${S}e${E}\\b`, "i")
      SeasonEpisodeTag(S, E) ==
        \E i \in P :
          /\ At(i, <<"s">> \o S \o <<"e">> \o E)
          /\ BoundaryAt(i + Len(S) + Len(E) + 2)
      \* new RegExp(`\\b${S}x${E}\\b`, "i")
      SeasonCrossEpisode(S, E) ==
        \E i \in P :
          /\ BoundaryAt(i)
          /\ At(i, S \o <<"x">> \o E)
          /\ BoundaryAt(i + Len(S) + Len(E) + 1)
      \* new RegExp(`${seasonKeywords}\\s*${S}.*?${episodeKeywords}\\s*${E}`, "i")
      SeasonEpisodeWords(S, E) ==
        \E kw \in seasonKeywords, i \in P :
          /\ At(i, kw)
          /\ \E j \in P :
               /\ Spaces(i + Len(kw), j)
               /\ At(j, S)
               /\ \E ekw \in episodeKeywords, m \in P :
                    /\ AnyBetween(j + Len(S), m)
                    /\ At(m, ekw)
                    /\ \E n \in P :
                         Spaces(m + Len(ekw), n) /\ At(n, E)
      \* new RegExp(`\\be${E}\\b`, "i")
      EpisodeTag(E) ==
        \E i \in P :
          /\ BoundaryAt(i)
          /\ At(i, <<"e">> \o E)
          /\ BoundaryAt(i + Len(E) + 1)
      \* new RegExp(`\\bep\\.?\\s*${E}\\b`, "i")
      EpisodeShort(E) ==
        \E i \in P, dot \in {0, 1} :
          /\ BoundaryAt(i)
          /\ At(i, <<"e", "p">>)
          /\ dot = 1 => At(i + 2, <<".">>)
          /\ \E j \in P :
               /\ Spaces(i + 2 + dot, j)
               /\ At(j, E)
               /\ BoundaryAt(j + Len(E))
      \* new RegExp(`\\b(?:episode|...)\\s*${E}\\b`, "i")
      EpisodeWord(E) ==
        \E ekw \in episodeKeywords, i \in P :
          /\ BoundaryAt(i)
          /\ At(i, ekw)
          /\ \E j \in P :
               /\ Spaces(i + Len(ekw), j)
               /\ At(j, E)
               /\ BoundaryAt(j + Len(E))
      \* new RegExp(`[\\-\\._\\s]${e}[\\-\\._\\s\\[]`, "i")
      EpisodeDelimited(E) ==
        \E i \in DOMAIN normalizedText :
          /\ normalizedText[i] \in {"-", ".", "_"} \/ SpaceAt(normalizedText, i)
          /\ At(i + 1, E)
          /\ LET k == i + 1 + Len(E) IN
             /\ k \in DOMAIN normalizedText
             /\ normalizedText[k] \in {"-", ".", "_", "["} \/ SpaceAt(normalizedText, k)
      \* strictPatterns.some((pattern) => pattern.test(normalizedText))
      strictPatterns ==
        \/ SeasonEpisodeTag(s, e)
        \/ SeasonEpisodeTag(sShort, eShort)
        \/ SeasonEpisodeTag(s, eShort)
        \/ SeasonEpisodeTag(sShort, e)
        \/ SeasonCrossEpisode(sShort, e)
        \/ SeasonCrossEpisode(sShort, eShort)
        \/ SeasonCrossEpisode(s, e)
        \/ SeasonEpisodeWords(sShort, eShort)
        \/ SeasonEpisodeWords(s, e)
      \* episodeOnlyPatterns.some((pattern) => pattern.test(normalizedText))
      episodeOnlyPatterns ==
        \/ EpisodeTag(e)
        \/ EpisodeTag(eShort)
        \/ EpisodeShort(eShort)
        \/ EpisodeShort(e)
        \/ EpisodeWord(eShort)
        \/ EpisodeWord(e)
        \/ EpisodeDelimited(e)
  IN IF text = <<>> \/ episode = None THEN FALSE
     ELSE IF seasonIndicatorRegex(normalizedText) THEN strictPatterns
          ELSE episodeOnlyPatterns

\* a text that names season 1, episode 10 in words
TextSeason1Episode10 == <<"S", "e", "a", "s", "o", "n", " ", "1", " ", "E", "p", "i", "s", "o", "d", "e", " ", "1", "0">>

(***************************************************************************)
(* addon.js: the lookup handler                                            *)
(***************************************************************************)
CACHE_TTL == 900000
EMPTY_CACHE_TTL == 60000
ARCHIVE_CACHE_TTL == 1800000

LANGUAGE_MAPPING ==
  [ro |-> "ron", en |-> "eng", ita |-> "ita", fra |-> "fra", ger |-> "deu",
   ung |-> "hun", gre |-> "ell", por |-> "por", spa |-> "spa", alt |-> "und"]

\* a mapping that answers "und" for every code it does not know
MapLanguageStrict(code) ==
  IF code \in DOMAIN LANGUAGE_MAPPING THEN LANGUAGE_MAPPING[code] ELSE "und"

\* LANGUAGE_MAPPING[sub.language] || sub.language
MapLanguage(code) ==
  IF code \in DOMAIN LANGUAGE_MAPPING THEN LANGUAGE_MAPPING[code] ELSE code

ParseInt(str) ==
  CASE str = "0" -> 0 [] str = "1" -> 1 [] str = "2" -> 2 [] OTHER -> 5

\* parseStremioId(): id is the tuple of the parts between the colons
parseStremioId(id) ==
  [imdbId |-> id[1],
   season |-> IF Len(id) >= 2 /\ id[2] # "" THEN ParseInt(id[2]) ELSE None,
   episode |-> IF Len(id) >= 3 /\ id[3] # "" THEN ParseInt(id[3]) ELSE None]

IsSeries(c) == c.type = "series" /\ parseStremioId(c.id).episode # None

\* `${config.languages || "all"}`: an array prints as its elements
LanguagesPart(c) == IF c.hasLanguages THEN c.languages ELSE <<"all">>

CacheKey(c) ==
  LET p == parseStremioId(c.id) IN
  IF IsSeries(c)
  THEN <<p.imdbId, "s", p.season, "e", p.episode, LanguagesPart(c)>>
  ELSE <<p.imdbId, LanguagesPart(c)>>

\* the cache check with <= in place of <
CacheHitInclusive(S, key) ==
  /\ Has(S.CACHE, key)
  /\ S.now - S.CACHE[key].timestamp <= S.CACHE[key].ttl

\* the cache check of subtitlesHandler
CacheHit(S, key) ==
  /\ Has(S.CACHE, key)
  /\ S.now - S.CACHE[key].timestamp < S.CACHE[key].ttl

\* the TTL chosen by CACHE.set
TtlFor(subtitles) == IF Len(subtitles) > 0 THEN CACHE_TTL ELSE EMPTY_CACHE_TTL

\* SubsRoClient.searchByImdb() once limiter.searchRequest has settled with
\* outcome o: the items of a well-formed answer, [] otherwise and on any error
searchByImdb(imdbId, o) == IF o = "ok" THEN Catalog(imdbId) ELSE <<>>

\* the language filter of the fetchTask
FilterByLanguage(results, c) ==
  IF c.hasLanguages /\ Len(c.languages) > 0
  THEN SelectSeq(results, LAMBDA sub : sub.language \in Range(c.languages))
  ELSE results

\* Buffer.from(srtPath).toString("base64url") and its inverse; eight base64
\* characters carry the first six bytes
Base64Url(srtPath) == [base64url |-> srtPath]

Base64Decode(encoded) == encoded.base64url

Slice8(encoded) ==
  SubSeq(encoded.base64url, 1, Min(6, Len(encoded.base64url)))

\* an inner loop without the episode test
SkipsNoPath(run, srtPath) == FALSE

\* if (isSeries) { if (!matchesEpisode(srtPath, season, episode)) continue; }
SkipsPath(run, srtPath) ==
  /\ IsSeries(run.config)
  /\ ~matchesEpisode(srtPath, parseStremioId(run.config.id).season,
                     parseStremioId(run.config.id).episode)

\* the tracks one archive contributes (the inner loop of the fetchTask)
RECURSIVE TracksOf(_, _, _)
TracksOf(run, sub, srtFiles) ==
  IF srtFiles = <<>> THEN <<>>
  ELSE LET srtPath == Head(srtFiles)
           encodedSrtPath == Base64Url(srtPath)
       IN IF SkipsPath(run, srtPath) THEN TracksOf(run, sub, Tail(srtFiles)) ELSE
          <<[id |-> <<"subsro", sub.id, Slice8(encodedSrtPath)>>,
             url |-> <<run.baseUrl, run.apiKey, "proxy", sub.id, encodedSrtPath, "sub.vtt">>,
             lang |-> MapLanguage(sub.language),
             srtPath |-> srtPath,
             matchScore |-> calculateMatchScore(run.filename, srtPath)]>>
          \o TracksOf(run, sub, Tail(srtFiles))

\* allSubtitles.sort((a, b) => b.matchScore - a.matchScore): stable, descending
RECURSIVE InsertByScore(_, _)
InsertByScore(sorted, x) ==
  IF sorted = <<>> THEN <<x>>
  ELSE IF Head(sorted).matchScore >= x.matchScore
       THEN <<Head(sorted)>> \o InsertByScore(Tail(sorted), x)
       ELSE <<x>> \o sorted

\* a fetchTask that leaves allSubtitles in the order of the archives
SortByScoreSkipped(list) == list

RECURSIVE SortByScore(_)
SortByScore(list) ==
  IF list = <<>> THEN <<>>
  ELSE InsertByScore(SortByScore(SubSeq(list, 1, Len(list) - 1)), list[Len(list)])

StripInternal(list) ==
  [n \in DOMAIN list |-> [id |-> list[n].id, url |-> list[n].url, lang |-> list[n].lang]]

\* the freshness test of getArchiveSrtList; an entry stored by the proxy has
\* no timestamp, which makes the comparison false
ArchiveFresh(S, subId) ==
  /\ Has(S.ARCHIVE_CACHE, subId)
  /\ S.ARCHIVE_CACHE[subId].timestamp # None
  /\ S.now - S.ARCHIVE_CACHE[subId].timestamp < ARCHIVE_CACHE_TTL

\* a catch block that falls back to a fixed listing
ArchiveFailureListing == <<PathB>>

\* what getArchiveSrtList returns from its catch block
ArchiveFailure == <<>>

\* the value the fetchTask returns from its own catch block
FetchTaskFailure == Resolved(<<>>)

\* a fetchTask without its finally block
DeletePendingSkipped(S, key) == S

\* the finally block of the fetchTask: PENDING_REQUESTS.delete(cacheKey)
DeletePending(S, key) == [S EXCEPT !.PENDING_REQUESTS = Del(@, key)]

\* the end of the fetchTask: sort, strip, CACHE.set, return; the finally
\* removes the in-flight marker; every caller awaiting the promise receives
\* its value
Finish(S, r) ==
  LET run == S.runs[r]
      subtitles == StripInternal(SortByScore(run.acc))
  IN [DeletePending(S, run.key) EXCEPT
        !.CACHE = Put(@, run.key, [data |-> subtitles, timestamp |-> S.now,
                                   ttl |-> TtlFor(subtitles)]),
        !.runs[r].pc = "done",
        !.runs[r].result = Resolved(subtitles),
        !.calls = [c \in DOMAIN @ |->
                     IF @[c].run = r /\ ~@[c].result.settled
                     THEN [@[c] EXCEPT !.result = Resolved(subtitles)]
                     ELSE @[c]]]

\* the outer loop of the fetchTask from its current position: archives whose
\* listing is cached and fresh are consumed at once, the first one that is not
\* is requested on globalLimiter's download lane and awaited
RECURSIVE RunLoop(_, _)
RunLoop(S, r) ==
  LET run == S.runs[r] IN
  IF run.todo = <<>> THEN Finish(S, r)
  ELSE LET sub == Head(run.todo) IN
       IF ArchiveFresh(S, sub.id)
       THEN RunLoop([S EXCEPT
                       !.runs[r].acc = @ \o TracksOf(run, sub, S.ARCHIVE_CACHE[sub.id].srtFiles),
                       !.runs[r].todo = Tail(@)], r)
       ELSE DownloadArchive([S EXCEPT !.runs[r].pc = "download"], G,
                            [kind |-> "run", id |-> r])

\* the fetchTask resumes after searchByImdb
RunAfterSearch(S, r, o) ==
  LET run == S.runs[r]
      results == searchByImdb(run.imdbId, o)
  IN RunLoop([S EXCEPT
                !.runs[r].todo = FilterByLanguage(results, run.config),
                !.runs[r].errors = IF o = "ok" THEN @ ELSE @ \cup {"search"}], r)

\* getArchiveSrtList resumes after globalLimiter.downloadArchive settled with
\* outcome o ("cancelled" when clearQueues rejected it), then the fetchTask
\* goes on with the next archive
RunAfterDownload(S, r, o) ==
  LET run == S.runs[r]
      sub == Head(run.todo)
      buffer == Buffer(sub.id, o)
      stored == Succeeds(o) /\ ~ListSrtFilesThrows(buffer)
      srtFiles == IF stored THEN ListSrtFiles(buffer) ELSE ArchiveFailure
      S1 == IF stored
            THEN [S EXCEPT !.ARCHIVE_CACHE =
                    Put(@, sub.id, [buffer |-> buffer, srtFiles |-> srtFiles,
                                    archiveType |-> buffer.kind,
                                    timestamp |-> S.now])]
            ELSE [S EXCEPT !.runs[r].errors =
                    @ \cup {IF o = "cancelled" THEN "cancel"
                            ELSE IF Succeeds(o) THEN "parse" ELSE "download"},
                           !.runs[r].failedSubs = @ \cup {sub.id}]
  IN RunLoop([S1 EXCEPT !.runs[r].acc = @ \o TracksOf(run, sub, srtFiles),
                        !.runs[r].todo = Tail(@)], r)

\* a clear that also rejects the items that are executing
ClearQueuesAborting(S, i) ==
  LET dropped == Range(S.lim[i].squeue) \cup Range(S.lim[i].dqueue)
                   \cup {q \in DOMAIN S.reqs :
                           S.reqs[q].lim = i /\ S.reqs[q].st = "executing"}
  IN [S EXCEPT !.lim[i].squeue = <<>>,
               !.lim[i].dqueue = <<>>,
               !.reqs = [q \in DOMAIN @ |->
                           IF q \in dropped THEN [@[q] EXCEPT !.st = "cancelled"]
                           ELSE @[q]]]

\* globalLimiter.clearQueues(): both queues are emptied and every item that
\* has not started is rejected with a cancellation
ClearQueues(S, i) ==
  LET dropped == Range(S.lim[i].squeue) \cup Range(S.lim[i].dqueue) IN
  [S EXCEPT !.lim[i].squeue = <<>>,
            !.lim[i].dqueue = <<>>,
            !.reqs = [q \in DOMAIN @ |->
                        IF q \in dropped THEN [@[q] EXCEPT !.st = "cancelled"]
                        ELSE @[q]]]

\* the callers of the rejected items resume, in the order of the rejections
RECURSIVE AfterCancel(_, _)
AfterCancel(S, qs) ==
  IF qs = <<>> THEN S
  ELSE LET q == Head(qs)
           owner == S.reqs[q].owner
           S1 == IF owner.kind = "run"
                 THEN IF S.reqs[q].lane = "SEARCH"
                      THEN RunAfterSearch(S, owner.id, "cancelled")
                      ELSE RunAfterDownload(S, owner.id, "cancelled")
                 ELSE S
       IN AfterCancel(S1, Tail(qs))

NewRun(c, key) ==
  [key |-> key, apiKey |-> c.apiKey, baseUrl |-> c.baseUrl,
   filename |-> c.filename, imdbId |-> parseStremioId(c.id).imdbId,
   config |-> c, pc |-> "search", todo |-> <<>>, acc |-> <<>>,
   result |-> Unsettled, errors |-> {}, failedSubs |-> {}]

\* a handler without its in-flight check
PendingRunIgnored(S, key) == 0

\* the lookup of the in-flight map: the run a new call for key attaches to,
\* 0 when the call has to start one
PendingRun(S, key) ==
  IF Has(S.PENDING_REQUESTS, key) THEN S.PENDING_REQUESTS[key] ELSE 0

\* a cache hit answered with an empty list
CacheAnswerEmpty(S, key) == Resolved(<<>>)

\* the answer of a cache hit: { subtitles: cached.data }
CacheAnswer(S, key) == Resolved(S.CACHE[key].data)

\* a handler that never records its fetchTask
SetPendingSkipped(S, key, r) == S

\* PENDING_REQUESTS.set(cacheKey, fetchTask)
SetPending(S, key, r) == [S EXCEPT !.PENDING_REQUESTS = Put(@, key, r)]

\* a handler that does not clear the shared limiter
ClearSharedSkipped(S) == S

\* "Clear any pending requests from previous title": the handler's call of
\* globalLimiter.clearQueues()
ClearShared(S) == ClearQueues(S, G)

\* the requests executing on globalLimiter (history of a call)
ActiveOnShared(S) ==
  {q \in DOMAIN S.reqs : S.reqs[q].lim = G /\ S.reqs[q].st = "executing"}

\* subtitlesHandler up to its return, then the continuations of the items its
\* clearQueues call rejected.  A call record keeps how the call was answered:
\* kind (nokey, cached, joined, started), the run it awaits, its result, and
\* for a cache hit the entry's age and ttl, for a join whether the run had
\* already ended, the number of queued items its clearQueues rejected and the
\* requests that were executing on globalLimiter meanwhile
subtitlesHandler(S, c) ==
  IF c.apiKey = ""
  THEN [S EXCEPT !.calls = Append(@, [req |-> c, kind |-> "nokey", run |-> 0,
                                      result |-> Resolved(<<>>), age |-> 0,
                                      ttl |-> 0, ended |-> FALSE,
                                      cleared |-> 0, active |-> {}])]
  ELSE
  LET S1 == ClearShared(S)
      rejected == SelectSeq(S.lim[G].squeue \o S.lim[G].dqueue,
                            LAMBDA q : S1.reqs[q].st = "cancelled")
      key == CacheKey(c)
      r == Len(S.runs) + 1
      S2 == IF CacheHit(S1, key)
            THEN [S1 EXCEPT !.calls = Append(@,
                    [req |-> c, kind |-> "cached", run |-> 0,
                     result |-> CacheAnswer(S1, key),
                     age |-> S1.now - S1.CACHE[key].timestamp,
                     ttl |-> S1.CACHE[key].ttl, ended |-> FALSE,
                     cleared |-> Len(rejected),
                     active |-> ActiveOnShared(S)])]
            ELSE IF PendingRun(S1, key) # 0
            THEN [S1 EXCEPT !.calls = Append(@,
                    [req |-> c, kind |-> "joined", run |-> PendingRun(S1, key),
                     result |-> Unsettled, age |-> 0, ttl |-> 0,
                     ended |-> S1.runs[PendingRun(S1, key)].pc = "done",
                     cleared |-> Len(rejected),
                     active |-> ActiveOnShared(S)])]
            ELSE LET T1 == GetLimiter(S1, c.apiKey)
                     T2 == SearchRequest(T1, LimiterOf(T1, c.apiKey),
                                         [kind |-> "run", id |-> r])
                 IN [SetPending(T2, key, r) EXCEPT
                       !.runs = Append(@, NewRun(c, key)),
                       !.calls = Append(@,
                          [req |-> c, kind |-> "started", run |-> r,
                           result |-> Unsettled, age |-> 0, ttl |-> 0,
                           ended |-> FALSE, cleared |-> Len(rejected),
                     active |-> ActiveOnShared(S)])]
  IN AfterCancel(S2, rejected)

(***************************************************************************)
(* proxy: the caption-delivery route                                       *)
(***************************************************************************)
\* the capacity is 100 in the source; it is scaled down so that the cache
\* fills with three captions
VTT_CACHE_MAX_SIZE == 2
VTT_TTL == 43200000

deleteVtt(S, key) ==
  [S EXCEPT !.vttStore = Del(@, key), !.vttOrder = Remove(@, key)]

\* getVtt(): whether it returns an item, and the state it leaves
VttHit(S, key) ==
  /\ Has(S.vttStore, key)
  /\ ~(S.now - S.vttStore[key].timestamp > VTT_TTL)

\* getVtt() without the move to the end of the order
getVttNoTouch(S, key) ==
  IF ~Has(S.vttStore, key) THEN S
  ELSE IF S.now - S.vttStore[key].timestamp > VTT_TTL THEN deleteVtt(S, key)
  ELSE S

getVtt(S, key) ==
  IF ~Has(S.vttStore, key) THEN S
  ELSE IF S.now - S.vttStore[key].timestamp > VTT_TTL THEN deleteVtt(S, key)
  ELSE IF key \in Range(S.vttOrder)
       THEN [S EXCEPT !.vttOrder = Append(Remove(@, key), key)]
       ELSE S

RECURSIVE EvictVtt(_)
EvictVtt(S) ==
  IF Len(S.vttOrder) >= VTT_CACHE_MAX_SIZE
  THEN EvictVtt([S EXCEPT !.vttStore = Del(@, Head(S.vttOrder)),
                          !.vttOrder = Tail(@)])
  ELSE S

setVtt(S, key, vtt) ==
  LET S1 == IF Has(S.vttStore, key) THEN [S EXCEPT !.vttOrder = Remove(@, key)]
            ELSE S
      S2 == EvictVtt(S1)
  IN [S2 EXCEPT !.vttStore = Put(@, key, [vtt |-> vtt, timestamp |-> S.now]),
                !.vttOrder = Append(@, key)]

Digit == {"0", "1", "2", "3", "4", "5", "6", "7", "8", "9"}

\* /(\d{2}:\d{2}:\d{2}),(\d{3})/ matches at position i
TimestampAt(text, i) ==
  /\ i + 11 <= Len(text)
  /\ \A j \in {0, 1, 3, 4, 6, 7, 9, 10, 11} : text[i + j] \in Digit
  /\ text[i + 2] = ":" /\ text[i + 5] = ":" /\ text[i + 8] = ","

\* .replace(/\r\n/g, "\n")
RECURSIVE NormalizeNewlines(_)
NormalizeNewlines(text) ==
  IF text = <<>> THEN <<>>
  ELSE IF Len(text) >= 2 /\ text[1] = "\r" /\ text[2] = "\n"
       THEN <<"\n">> \o NormalizeNewlines(SubSeq(text, 3, Len(text)))
       ELSE <<text[1]>> \o NormalizeNewlines(Tail(text))

\* a replace without the g flag: the first match only
RECURSIVE RewriteFirstTimestamp(_)
RewriteFirstTimestamp(text) ==
  IF text = <<>> THEN <<>>
  ELSE IF TimestampAt(text, 1)
       THEN SubSeq(text, 1, 8) \o <<".">> \o SubSeq(text, 10, Len(text))
       ELSE <<text[1]>> \o RewriteFirstTimestamp(Tail(text))

\* .replace(/(\d{2}:\d{2}:\d{2}),(\d{3})/g, "$1.$2"): leftmost matches, not overlapping
RECURSIVE RewriteTimestamps(_)
RewriteTimestamps(text) ==
  IF text = <<>> THEN <<>>
  ELSE IF TimestampAt(text, 1)
       THEN SubSeq(text, 1, 8) \o <<".">> \o SubSeq(text, 10, 12)
            \o RewriteTimestamps(SubSeq(text, 13, Len(text)))
       ELSE <<text[1]>> \o RewriteTimestamps(Tail(text))

\* the conversion to WebVTT; the captions of this model are ASCII text, which
\* every candidate encoding decodes alike
Transcode(content) ==
  <<"W", "E", "B", "V", "T", "T", "\n", "\n">>
  \o RewriteTimestamps(NormalizeNewlines(content))

Respond(S, p, status, body) ==
  [S EXCEPT !.proxies[p].response = [status |-> status, body |-> body]]

\* the route from extractSrtFile on
ProxyExtract(S, p, buffer) ==
  LET x == S.proxies[p]
      srtPath == Base64Decode(x.encodedSrtPath)
  IN IF ~HasEntry(buffer, srtPath)
     THEN Respond(S, p, "404", "SRT file not found in archive")
     ELSE LET vtt == Transcode(ExtractSrtFile(buffer, srtPath)) IN
          Respond(setVtt(S, <<x.subId, x.encodedSrtPath>>, vtt), p, "200", vtt)

\* an upstream status that no handler of the program names
OtherStatuses == {"503"}

\* the status of the catch block: error.response?.status || 500
ErrorStatus(o) == IF o \in Statuses \cup OtherStatuses THEN o ELSE "500"

\* the age of the archive entry the route reads (history of a request); an
\* entry the route stored itself has no timestamp and so no known age
ArchiveAge(S, subId) ==
  IF S.ARCHIVE_CACHE[subId].timestamp = None THEN None
  ELSE S.now - S.ARCHIVE_CACHE[subId].timestamp

\* a route that never finds an archive in the cache
ArchiveCachedNever(S, subId) == FALSE

\* cachedArchive && cachedArchive.buffer
ArchiveCached(S, subId) == Has(S.ARCHIVE_CACHE, subId)

\* the route up to its first await or its response
proxyRoute(S, apiKey, subId, encodedSrtPath) ==
  LET p == Len(S.proxies) + 1
      vttKey == <<subId, encodedSrtPath>>
      S0 == [S EXCEPT !.proxies = Append(@,
               [apiKey |-> apiKey, subId |-> subId,
                encodedSrtPath |-> encodedSrtPath, response |-> Unsettled,
                downloads |-> 0, age |-> None])]
      S1 == getVtt(S0, vttKey)
  IN IF VttHit(S0, vttKey)
     THEN Respond(S1, p, "200", S0.vttStore[vttKey].vtt)
     ELSE IF ArchiveCached(S1, subId)
     THEN ProxyExtract([S1 EXCEPT !.proxies[p].age = ArchiveAge(S1, subId)],
                       p, S1.ARCHIVE_CACHE[subId].buffer)
     ELSE LET T1 == GetLimiter(S1, apiKey) IN
          DownloadArchive([T1 EXCEPT !.proxies[p].downloads = 1],
                          LimiterOf(T1, apiKey), [kind |-> "proxy", id |-> p])

\* a catch block that answers with an empty caption
ProxyCatchSwallowing(S, p, o) == Respond(S, p, "200", <<>>)

\* the catch block of the route, entered with the error of outcome o
ProxyCatch(S, p, o) == Respond(S, p, ErrorStatus(o), "Proxy error")

\* the route resumes after limiter.downloadArchive settled with outcome o
ProxyAfterDownload(S, p, o) ==
  LET x == S.proxies[p]
      buffer == Buffer(x.subId, o)
  IN IF ~Succeeds(o) THEN ProxyCatch(S, p, o)
     ELSE IF ListSrtFilesThrows(buffer) THEN ProxyCatch(S, p, o)
     ELSE ProxyExtract(
            [S EXCEPT !.ARCHIVE_CACHE =
               Put(@, x.subId, [buffer |-> buffer, archiveType |-> buffer.kind,
                                srtFiles |-> ListSrtFiles(buffer),
                                timestamp |-> None])], p, buffer)

(***************************************************************************)
(* Actions                                                                 *)
(***************************************************************************)
Executing == {q \in DOMAIN reqs : reqs[q].st = "executing"}

\* the instants at which a time comparison of the program changes its answer
LaneDeadlines ==
  {lim[i].lastRequest + interval :
     i \in {j \in DOMAIN lim : lim[j].alive /\ lim[j].squeue # <<>>}}
  \cup {lim[i].lastStart + staggerMs :
     i \in {j \in DOMAIN lim : lim[j].alive /\ lim[j].dqueue # <<>>}}

CacheDeadlines ==
  {CACHE[k].timestamp + CACHE[k].ttl : k \in DOMAIN CACHE}

ArchiveDeadlines ==
  {ARCHIVE_CACHE[k].timestamp + ARCHIVE_CACHE_TTL :
     k \in {j \in DOMAIN ARCHIVE_CACHE : ARCHIVE_CACHE[j].timestamp # None}}

VttDeadlines ==
  {vttStore[k].timestamp + VTT_TTL + 1 : k \in DOMAIN vttStore}

IdleDeadlines ==
  {lim[i].lastUsed + idleTimeoutMs + 1 : i \in Range(limiters)}

\* the constructor's two intervals (100 ms and 50 ms) fire before any instant
\* of the model's clock: an item that may start is started before time moves on
TickDue ==
  \E i \in DOMAIN lim :
    /\ lim[i].alive
    /\ SearchMayStart(lim[i], now) \/ DownloadMayStart(lim[i], now)

\* the clock advances to instant t; axios' timeout option bounds how long a
\* request executes
Advance(t) ==
  /\ t > now
  /\ ~TickDue
  /\ \A q \in Executing : t <= reqs[q].start + timeout
  /\ now' = t
  /\ advances' = advances + 1
  /\ UNCHANGED <<lim, limiters, reqs, CACHE, PENDING_REQUESTS, ARCHIVE_CACHE,
                 runs, calls, vttStore, vttOrder, proxies, applied>>

\* GET /:config/subtitles/...: one call of subtitlesHandler
HandlerCall(c) ==
  /\ Install(subtitlesHandler(Heap, c))
  /\ UNCHANGED <<now, advances>>

\* GET /api/validate/:apiKey: SubsRoClient.validate(), getLimiter then
\* searchRequest
Validate(k) ==
  /\ LET S1 == GetLimiter(Heap, k) IN
     Install(SearchRequest(S1, LimiterOf(S1, k), [kind |-> "validate", id |-> 0]))
  /\ UNCHANGED <<now, advances>>

\* GET /:apiKey/proxy/:subId/:encodedSrtPath/sub.vtt
ProxyRequest(k, subId, encodedSrtPath) ==
  /\ Install(proxyRoute(Heap, k, subId, encodedSrtPath))
  /\ UNCHANGED <<now, advances>>

\* a tick of _searchInterval: processSearchQueue up to its await
ProcessSearchQueue(i) ==
  /\ lim[i].alive
  /\ SearchMayStart(lim[i], now)
  /\ LET q == Head(lim[i].squeue) IN
     /\ lim' = [lim EXCEPT ![i] = Started([@ EXCEPT !.processing = TRUE,
                                                    !.lastRequest = now,
                                                    !.squeue = Tail(@)],
                                         "SEARCH", now)]
     /\ reqs' = [reqs EXCEPT ![q] = Begin(@, lim[i], "SEARCH", now)]
  /\ UNCHANGED <<now, advances, limiters, CACHE, PENDING_REQUESTS,
                 ARCHIVE_CACHE, runs, calls, vttStore, vttOrder, proxies, applied>>

\* a tick of _downloadInterval: processDownloadQueue up to the request
ProcessDownloadQueue(i) ==
  /\ lim[i].alive
  /\ DownloadMayStart(lim[i], now)
  /\ LET q == Head(lim[i].dqueue) IN
     /\ lim' = [lim EXCEPT ![i] = Started([@ EXCEPT !.lastStart = now,
                                                    !.activeCount = @ + 1,
                                                    !.dqueue = Tail(@)],
                                         "DOWNLOAD", now)]
     /\ reqs' = [reqs EXCEPT ![q] = Begin(@, lim[i], "DOWNLOAD", now)]
  /\ UNCHANGED <<now, advances, limiters, CACHE, PENDING_REQUESTS,
                 ARCHIVE_CACHE, runs, calls, vttStore, vttOrder, proxies, applied>>

\* the caller of request q resumes once the request has settled with outcome o
Resume(S, q, o) ==
  LET owner == S.reqs[q].owner IN
  CASE owner.kind = "run" /\ S.reqs[q].lane = "SEARCH" -> RunAfterSearch(S, owner.id, o)
    [] owner.kind = "run" /\ S.reqs[q].lane = "DOWNLOAD" -> RunAfterDownload(S, owner.id, o)
    [] owner.kind = "proxy" -> ProxyAfterDownload(S, owner.id, o)
    [] OTHER -> S

\* the upstream answers the executing request q with outcome o: the rest of
\* executeRequest, the lane's release, and the caller's continuation unless
\* the request went back into its queue
Complete(q, o) ==
  /\ q \in Executing
  /\ LET S1 == Executed(Heap, q, o) IN
     Install(IF S1.reqs[q].st = "queued" THEN S1 ELSE Resume(S1, q, o))
  /\ UNCHANGED <<now, advances>>

\* the manager's ten-minute cleanup timer
Cleanup ==
  /\ \E i \in Range(limiters) : IsIdle(lim[i], now)
  /\ Install(CleanupState(Heap))
  /\ UNCHANGED <<now, advances>>

Init ==
  /\ now = StartTime
  /\ advances = 0
  /\ lim = <<NewLimiter("global", StartTime)>>
  /\ limiters = <<>>
  /\ reqs = <<>>
  /\ CACHE = EmptyMap
  /\ PENDING_REQUESTS = EmptyMap
  /\ ARCHIVE_CACHE = EmptyMap
  /\ runs = <<>>
  /\ calls = <<>>
  /\ vttStore = EmptyMap
  /\ vttOrder = <<>>
  /\ proxies = <<>>
  /\ applied = [fn |-> "none", args |-> <<>>, result |-> 0]

(***************************************************************************)
(* Spec: lookups through subtitlesHandler                                  *)
(***************************************************************************)
Request(apiKey, imdbId) ==
  [type |-> "movie", id |-> <<imdbId>>, filename |-> <<>>, apiKey |-> apiKey,
   hasLanguages |-> FALSE, languages |-> <<>>, baseUrl |-> "http://host"]

Requests == {Request("k1", "tt1"), Request("k1", "tt2")}

\* a lookup meets an upstream that answers or refuses
LookupOutcomes == {"ok", "404"}

Next ==
  \/ \E t \in LaneDeadlines \cup CacheDeadlines :
       advances < MaxAdvance /\ Advance(t)
  \/ \E c \in Requests : Len(calls) < MaxCalls /\ HandlerCall(c)
  \/ \E i \in DOMAIN lim : ProcessSearchQueue(i)
  \/ \E i \in DOMAIN lim : ProcessDownloadQueue(i)
  \/ \E q \in DOMAIN reqs, o \in LookupOutcomes : Complete(q, o)

Spec == Init /\ [][Next]_vars

(***************************************************************************)
(* SpecFailure: one title looked up against an upstream that fails in      *)
(* every way                                                               *)
(***************************************************************************)
NextFailure ==
  \/ \E t \in LaneDeadlines \cup CacheDeadlines :
       advances < MaxFailureAdvance /\ Advance(t)
  \/ Len(calls) < MaxFailureCalls /\ HandlerCall(Request("k1", "tt1"))
  \/ \E i \in DOMAIN lim : ProcessSearchQueue(i)
  \/ \E i \in DOMAIN lim : ProcessDownloadQueue(i)
  \/ \E q \in DOMAIN reqs, o \in Outcomes : Complete(q, o)

SpecFailure == Init /\ [][NextFailure]_vars

(***************************************************************************)
(* SpecSearch: the search lanes and the registry, driven by validate()     *)
(***************************************************************************)
\* credentials are taken into use in a fixed order (they are interchangeable)
KeyOrder == <<"k1", "k2", "k3">>

UsedKeys == {lim[i].apiKey : i \in DOMAIN lim}

LaneOutcomes == {"ok", "corrupt", "ECONNRESET", "401"}

\* validate() reads one field of the answer: a malformed body is no case apart
SearchOutcomes == {"ok", "ECONNRESET", "401"}

NextSearch ==
  \/ \E t \in LaneDeadlines : advances < MaxSearchAdvance /\ Advance(t)
  \/ \E n \in DOMAIN KeyOrder :
       /\ Len(reqs) < MaxReqs
       /\ n > 1 => KeyOrder[n - 1] \in UsedKeys
       /\ Validate(KeyOrder[n])
  \/ \E i \in DOMAIN lim : ProcessSearchQueue(i)
  \/ \E q \in DOMAIN reqs, o \in SearchOutcomes : Complete(q, o)

SpecSearch == Init /\ [][NextSearch]_vars

(***************************************************************************)
(* SpecRegistry: the registry under capacity pressure and idleness         *)
(***************************************************************************)
RegistryOutcomes == {"ok", "401"}

NextRegistry ==
  \/ \E t \in IdleDeadlines : advances < MaxIdleAdvance /\ Advance(t)
  \/ \E n \in DOMAIN KeyOrder :
       /\ Len(reqs) < MaxRegistryReqs
       /\ n > 1 => KeyOrder[n - 1] \in UsedKeys
       /\ Validate(KeyOrder[n])
  \/ \E i \in DOMAIN lim : ProcessSearchQueue(i)
  \/ \E q \in DOMAIN reqs, o \in RegistryOutcomes : Complete(q, o)
  \/ Cleanup

SpecRegistry == Init /\ [][NextRegistry]_vars

(***************************************************************************)
(* SpecDownload: one download lane, driven by caption-delivery requests    *)
(***************************************************************************)
NextDownload ==
  \/ \E t \in LaneDeadlines : advances < MaxDownloadAdvance /\ Advance(t)
  \/ Len(proxies) < MaxProxies /\ ProxyRequest("k1", 1, Base64Url(PathA))
  \/ \E i \in DOMAIN lim : ProcessDownloadQueue(i)
  \/ \E q \in DOMAIN reqs, o \in LaneOutcomes : Complete(q, o)

SpecDownload == Init /\ [][NextDownload]_vars

(***************************************************************************)
(* SpecArchive: the archive cache, shared by lookups and caption-delivery   *)
(* requests                                                                 *)
(***************************************************************************)
MaxArchiveAdvance == 1
MaxArchiveCalls == 2
MaxArchiveProxies == 1

\* a download answers with an archive, with bytes that are no archive, or
\* with a refusal

\* the intervals keep firing: the clock does not pass the instant at which a
\* queued item becomes eligible
NoTickSkipped(t) == \A d \in LaneDeadlines : d > now => t <= d

NextArchive ==
  \/ \E t \in ArchiveDeadlines \cup LaneDeadlines :
       advances < MaxArchiveAdvance /\ NoTickSkipped(t) /\ Advance(t)
  \/ Len(calls) < MaxArchiveCalls /\ HandlerCall(Request("k1", "tt3"))
  \/ Len(proxies) < MaxArchiveProxies
       /\ ProxyRequest("k1", 2, Base64Url(PathB))
  \/ \E i \in DOMAIN lim : ProcessSearchQueue(i)
  \/ \E i \in DOMAIN lim : ProcessDownloadQueue(i)
  \/ \E q \in DOMAIN reqs, o \in {"ok", "corrupt", "404"} : Complete(q, o)

SpecArchive == Init /\ [][NextArchive]_vars

(***************************************************************************)
(* SpecCaption: the caption cache, filled by caption-delivery requests for *)
(* three captions                                                          *)
(***************************************************************************)
MaxCaptionAdvance == 1
MaxCaptionProxies == 4

CaptionKeys ==
  {<<1, Base64Url(PathA)>>, <<1, Base64Url(PathC)>>, <<2, Base64Url(PathB)>>}


NextCaption ==
  \/ \E t \in LaneDeadlines \cup VttDeadlines :
       advances < MaxCaptionAdvance /\ NoTickSkipped(t) /\ Advance(t)
  \/ \E k \in CaptionKeys :
       Len(proxies) < MaxCaptionProxies /\ ProxyRequest("k1", k[1], k[2])
  \/ \E i \in DOMAIN lim : ProcessDownloadQueue(i)
  \/ \E q \in DOMAIN reqs, o \in {"ok", "404"} : Complete(q, o)

SpecCaption == Init /\ [][NextCaption]_vars

(***************************************************************************)
(* SpecStatus: one caption requested from an upstream that fails in every  *)
(* way                                                                     *)
(***************************************************************************)
MaxStatusAdvance == 2
MaxStatusProxies == 2

NextStatus ==
  \/ \E t \in LaneDeadlines :
       advances < MaxStatusAdvance /\ NoTickSkipped(t) /\ Advance(t)
  \/ Len(proxies) < MaxStatusProxies
       /\ ProxyRequest("k1", 1, Base64Url(PathA))
  \/ \E i \in DOMAIN lim : ProcessDownloadQueue(i)
  \/ \E q \in DOMAIN reqs, o \in Outcomes \cup OtherStatuses : Complete(q, o)

SpecStatus == Init /\ [][NextStatus]_vars

(***************************************************************************)
(* SpecOrder: one title looked up by players that name different video     *)
(* files                                                                   *)
(***************************************************************************)
MaxOrderAdvance == 1
MaxOrderCalls == 2

\* extra.filename is absent in one request and names a video in the other
OrderRequests ==
  {[Request("k1", "tt1") EXCEPT !.filename = f] : f \in {<<>>, Video2}}

NextOrder ==
  \/ \E t \in LaneDeadlines :
       advances < MaxOrderAdvance /\ NoTickSkipped(t) /\ Advance(t)
  \/ \E c \in OrderRequests : Len(calls) < MaxOrderCalls /\ HandlerCall(c)
  \/ \E i \in DOMAIN lim : ProcessSearchQueue(i)
  \/ \E i \in DOMAIN lim : ProcessDownloadQueue(i)
  \/ \E q \in DOMAIN reqs, o \in LookupOutcomes : Complete(q, o)

SpecOrder == Init /\ [][NextOrder]_vars

(***************************************************************************)
(* SpecSeries: an episode of a series is looked up in one language         *)
(***************************************************************************)
MaxSeriesAdvance == 3
MaxSeriesCalls == 3

\* /subtitles/series/tt4:2:5.json with languages = ["ro"]
SeriesRequests ==
  {[Request("k1", "tt4") EXCEPT !.type = "series", !.id = <<"tt4", "2", "5">>,
                                !.hasLanguages = TRUE, !.languages = <<"ro">>]}

NextSeries ==
  \/ \E t \in LaneDeadlines :
       advances < MaxSeriesAdvance /\ NoTickSkipped(t) /\ Advance(t)
  \/ \E c \in SeriesRequests : Len(calls) < MaxSeriesCalls /\ HandlerCall(c)
  \/ \E i \in DOMAIN lim : ProcessSearchQueue(i)
  \/ \E i \in DOMAIN lim : ProcessDownloadQueue(i)
  \/ \E q \in DOMAIN reqs, o \in LookupOutcomes : Complete(q, o)

SpecSeries == Init /\ [][NextSeries]_vars

(***************************************************************************)
(* SpecLive: the search lanes and the registry with timers that keep       *)
(* firing and an upstream that answers every call                          *)
(***************************************************************************)
MaxLiveReqs == 3
MaxLiveAdvance == 2

\* time passes up to the next instant at which a waiting lane may start; the
\* requests, and with them these instants, are finitely many
LaneTime == \E t \in LaneDeadlines : NoTickSkipped(t) /\ Advance(t)

\* the limiter instances: globalLimiter and at most one for each request
Instances == 1 .. MaxLiveReqs + 1

\* a tick of the setInterval timer of limiter instance i
SearchTick(i) == i \in DOMAIN lim /\ ProcessSearchQueue(i)

\* axios settles the call of request q: an answer, a failure or its timeout
Answer(q) == q \in DOMAIN reqs /\ \E o \in SearchOutcomes : Complete(q, o)

NextLive ==
  \/ LaneTime
  \/ \E t \in IdleDeadlines :
       advances < MaxLiveAdvance /\ NoTickSkipped(t) /\ Advance(t)
  \/ \E n \in DOMAIN KeyOrder :
       /\ Len(reqs) < MaxLiveReqs
       /\ n > 1 => KeyOrder[n - 1] \in UsedKeys
       /\ Validate(KeyOrder[n])
  \/ \E i \in Instances : SearchTick(i)
  \/ \E q \in 1 .. MaxLiveReqs : Answer(q)
  \/ Cleanup

\* setInterval keeps calling processSearchQueue of every limiter that was not
\* destroyed, the clock runs, and axios settles every call
Fairness ==
  /\ WF_vars(LaneTime)
  /\ \A i \in Instances : WF_vars(SearchTick(i))
  /\ \A q \in 1 .. MaxLiveReqs : WF_vars(Answer(q))

SpecLive == Init /\ [][NextLive]_vars /\ Fairness

(***************************************************************************)
(* SpecShare: one title looked up with two credentials                     *)
(***************************************************************************)
MaxShareAdvance == 1
MaxShareCalls == 2

\* two installations, each with its own API key, ask for the same title
ShareRequests == {Request("k1", "tt1"), Request("k2", "tt1")}

NextShare ==
  \/ \E t \in LaneDeadlines :
       advances < MaxShareAdvance /\ NoTickSkipped(t) /\ Advance(t)
  \/ \E c \in ShareRequests : Len(calls) < MaxShareCalls /\ HandlerCall(c)
  \/ \E i \in DOMAIN lim : ProcessSearchQueue(i)
  \/ \E i \in DOMAIN lim : ProcessDownloadQueue(i)
  \/ \E q \in DOMAIN reqs, o \in LookupOutcomes : Complete(q, o)

SpecShare == Init /\ [][NextShare]_vars

(***************************************************************************)
(* SpecPack: a movie lookup whose archives hold several captions           *)
(***************************************************************************)
MaxPackAdvance == 3
MaxPackCalls == 2

NextPack ==
  \/ \E t \in LaneDeadlines :
       advances < MaxPackAdvance /\ NoTickSkipped(t) /\ Advance(t)
  \/ Len(calls) < MaxPackCalls /\ HandlerCall(Request("k1", "tt4"))
  \/ \E i \in DOMAIN lim : ProcessSearchQueue(i)
  \/ \E i \in DOMAIN lim : ProcessDownloadQueue(i)
  \/ \E q \in DOMAIN reqs, o \in LookupOutcomes : Complete(q, o)

SpecPack == Init /\ [][NextPack]_vars

(***************************************************************************)
(* Pure functions, applied to inputs drawn from bounded sets               *)
(***************************************************************************)
\* one application in a behaviour
Apply(fn, args, result) ==
  /\ applied.fn = "none"
  /\ applied' = [fn |-> fn, args |-> args, result |-> result]
  /\ UNCHANGED <<now, advances, lim, limiters, reqs, CACHE, PENDING_REQUESTS,
                 ARCHIVE_CACHE, runs, calls, vttStore, vttOrder, proxies>>

\* f stands for the value fuzz.token_set_ratio returns
NextScore ==
  \E v \in {<<>>, Video1, PathB}, s \in {<<>>, PathA, PathB, PathW}, f \in 0 .. 100 :
    Apply("calculateMatchScore", <<v, s, f>>, Score(v, s, f))

\* sub.language as the upstream sends it: the codes of the table, a code the
\* table lacks, and codes that are values of the table
NextLanguage ==
  \E code \in DOMAIN LANGUAGE_MAPPING \cup {"xx", "und", "ron"} :
    Apply("MapLanguage", <<code>>, MapLanguage(code))

\* the arguments of subtitlesHandler the request key is built from
KeyRequest(type, id, hasLanguages, languages) ==
  [type |-> type, id |-> id, filename |-> <<>>, apiKey |-> "k1",
   hasLanguages |-> hasLanguages, languages |-> languages,
   baseUrl |-> "http://host"]

NextKey ==
  LET ids == {<<"tt1">>, <<"tt1", "1", "2">>, <<"tt2", "1", "2">>}
      KeyRequests ==
        {KeyRequest(type, id, FALSE, <<>>) : type \in {"movie", "series"}, id \in ids}
        \cup {KeyRequest(type, id, TRUE, languages) :
                type \in {"movie", "series"}, id \in ids,
                languages \in {<<"ro">>, <<"ro", "en">>, <<"en", "ro">>}}
  IN \E c1, c2 \in KeyRequests :
       Apply("cacheKey", <<c1, c2>>, <<CacheKey(c1), CacheKey(c2)>>)

\* the texts matchesEpisode() is applied to
EpisodeTexts ==
  {<<>>, TitleS02E05, Title1x05, TextSeason1Episode10,
   <<"s", "h", "o", "w", " ", "s", "2", "e", "5">>,
   <<"S", "h", "o", "w", " ", "1", "1", "x", "0", "5">>,
   <<"S", "e", "a", "s", "o", "n", " ", "1", " ", "E", "p", "i", "s", "o", "d", "e", " ", "5">>,
   <<"s", "e", "z", "o", "n", " ", "0", "2", " ", "-", " ", "e", "p", "i", "s", "o", "d", " ", "0", "5">>,
   <<"S", "h", "o", "w", " ", "E", "0", "5">>,
   <<"S", "h", "o", "w", " ", "E", "p", ".", "5">>,
   <<"S", "h", "o", "w", " ", "E", "p", "i", "s", "o", "d", "e", " ", "5", " ", "H", "D">>,
   <<"S", "h", "o", "w", " ", "-", " ", "0", "5", " ", "[", "7", "2", "0", "p", "]">>,
   <<"S", "h", "o", "w", " ", "E", "1", "5">>,
   <<"S", "h", "o", "w", " ", "7", "2", "0", "p">>}

NextEpisode ==
  \E text \in EpisodeTexts, season \in {1, 2}, episode \in {None, 1, 5} :
    Apply("matchesEpisode", <<text, season, episode>>,
          matchesEpisode(text, season, episode))

\* the decoded content of an archive entry: up to MaxPieces pieces of an SRT
\* file, one after the other
MaxPieces == 3

RECURSIVE Concat(_)
Concat(pieces) ==
  IF pieces = <<>> THEN <<>> ELSE Head(pieces) \o Concat(Tail(pieces))

CaptionTexts ==
  LET Pieces ==
        {<<"0", "0", ":", "0", "1", ":", "0", "2", ",", "3", "4", "5">>,
         <<" ", "-", "-", ">", " ">>,
         <<"\r", "\n">>, <<"\n">>, <<"\r">>,
         <<"H", "i">>, <<"1", ",", "5">>}
  IN {Concat(ps) : ps \in UNION {[1 .. n -> Pieces] : n \in 0 .. MaxPieces}}

NextTranscode ==
  \E content \in CaptionTexts :
    Apply("Transcode", <<content>>, Transcode(content))

NextPure ==
  \/ NextScore
  \/ NextLanguage
  \/ NextKey
  \/ NextEpisode
  \/ NextTranscode

SpecPure == Init /\ [][NextPure]_vars

(***************************************************************************)
(* Properties of the lookup handler (checked under Spec; C6 under          *)
(* SpecFailure)                                                            *)
(***************************************************************************)
\* the search requests issued for a request key
SearchesFor(key) ==
  {q \in DOMAIN reqs : /\ reqs[q].lane = "SEARCH"
                       /\ reqs[q].owner.kind = "run"
                       /\ runs[reqs[q].owner.id].key = key}

Unfinished(q) == reqs[q].st \in {"queued", "executing"}

Attached(c) == calls[c].kind \in {"started", "joined"}

\* C1: while a run still awaits its search, every call made for its key is
\* attached to that one run and exactly one search request exists for the
\* key: concurrent calls with one key cause one upstream search
C1_OneSearchPerKey ==
  \A r \in DOMAIN runs :
    runs[r].pc = "search" =>
      /\ Cardinality({q \in SearchesFor(runs[r].key) : Unfinished(q)}) = 1
      /\ \A c \in DOMAIN calls :
           (Attached(c) /\ c >= r /\ CacheKey(calls[c].req) = runs[r].key
              /\ runs[calls[c].run].pc = "search")
             => calls[c].run = r

\* two calls share a run whose only search request is executing
C1_Witness ==
  \E c \in DOMAIN calls :
    /\ calls[c].kind = "joined"
    /\ runs[calls[c].run].pc = "search"
    /\ \E q \in SearchesFor(runs[calls[c].run].key) : reqs[q].st = "executing"

\* C2: at most one run is in flight per request key, and a call that arrived
\* while the run was in flight holds the run's own outcome
C2_SingleFlight ==
  /\ \A r1, r2 \in DOMAIN runs :
       (r1 # r2 /\ runs[r1].pc # "done" /\ runs[r2].pc # "done")
         => runs[r1].key # runs[r2].key
  /\ \A c \in DOMAIN calls :
       calls[c].kind = "joined" =>
         /\ calls[c].run < Len(runs) + 1
         /\ runs[calls[c].run].key = CacheKey(calls[c].req)
         /\ calls[c].result = runs[calls[c].run].result

\* a joined call has received the outcome of a run that found tracks
C2_Witness ==
  \E c \in DOMAIN calls :
    /\ calls[c].kind = "joined"
    /\ calls[c].result.settled
    /\ calls[c].result.value # <<>>

\* a step in which subtitlesHandler answers from the result cache
CachedCallStep ==
  /\ Len(calls') = Len(calls) + 1
  /\ calls'[Len(calls')].kind = "cached"

QueuedOn(i) == Range(lim[i].squeue) \cup Range(lim[i].dqueue)

\* C3 as stated: a call answered from the result cache returns the stored
\* list, makes no upstream call and leaves the in-flight map, the caches and
\* the queued work of both lanes unchanged
C3_CacheHitFrame ==
  [][CachedCallStep =>
       /\ calls'[Len(calls')].result = Resolved(CACHE[CacheKey(calls'[Len(calls')].req)].data)
       /\ {q \in DOMAIN reqs' : reqs'[q].st = "executing"} = Executing
       /\ PENDING_REQUESTS' = PENDING_REQUESTS
       /\ CACHE' = CACHE
       /\ ARCHIVE_CACHE' = ARCHIVE_CACHE
       /\ \A i \in DOMAIN lim : /\ lim'[i].squeue = lim[i].squeue
                                /\ lim'[i].dqueue = lim[i].dqueue]_vars

\* C3 amended: a call answered from the result cache returns the stored
\* list, starts no run, enqueues no search, starts no upstream call, and
\* leaves its own key's cache entry and in-flight marker, the archive cache
\* and every registry limiter unchanged; every item queued on the shared
\* limiter is cancelled
C3_CacheHitEffect ==
  [][CachedCallStep =>
       LET c == calls'[Len(calls')]
           key == CacheKey(c.req)
       IN /\ c.result = Resolved(CACHE[key].data)
          /\ c.run = 0
          /\ Len(runs') = Len(runs)
          /\ {q \in DOMAIN reqs' : reqs'[q].st = "executing"} = Executing
          /\ \A q \in DOMAIN reqs' \ DOMAIN reqs : reqs'[q].lane = "DOWNLOAD"
          /\ CACHE'[key] = CACHE[key]
          /\ Has(PENDING_REQUESTS', key) = Has(PENDING_REQUESTS, key)
          /\ ARCHIVE_CACHE' = ARCHIVE_CACHE
          /\ \A i \in DOMAIN lim \ {G} : lim'[i] = lim[i]
          /\ \A q \in QueuedOn(G) : reqs'[q].st = "cancelled"]_vars

\* a call was answered from the result cache and its clearQueues rejected
\* queued work
C3_Witness ==
  \E c \in DOMAIN calls : calls[c].kind = "cached" /\ calls[c].cleared > 0

\* C4: a result-cache entry lives 15 minutes exactly when its list is not
\* empty and 1 minute exactly when it is empty, and no call is answered from
\* an entry whose age has reached its TTL
C4_CacheTtl ==
  /\ \A k \in DOMAIN CACHE :
       /\ CACHE[k].ttl = 900000 <=> CACHE[k].data # <<>>
       /\ CACHE[k].ttl = 60000 <=> CACHE[k].data = <<>>
  /\ \A c \in DOMAIN calls :
       calls[c].kind = "cached" =>
         /\ calls[c].age < calls[c].ttl
         /\ calls[c].ttl = 900000 <=> calls[c].result.value # <<>>
         /\ calls[c].ttl = 60000 <=> calls[c].result.value = <<>>

\* a run was started at the instant an entry's age reached its TTL
C4_Witness ==
  \E k \in DOMAIN CACHE :
    /\ now - CACHE[k].timestamp = CACHE[k].ttl
    /\ Has(PENDING_REQUESTS, k)

\* C5: the in-flight marker of a key always names a run of that key that has
\* not ended, whatever the outcome of earlier runs; no call ever attaches to
\* a run that has ended
C5_MarkerRemoved ==
  /\ \A k \in DOMAIN PENDING_REQUESTS :
       /\ runs[PENDING_REQUESTS[k]].key = k
       /\ runs[PENDING_REQUESTS[k]].pc # "done"
  /\ \A c \in DOMAIN calls : ~calls[c].ended

\* after a run that met a failure has ended, a second run of its key exists
C5_Witness ==
  \E r1, r2 \in DOMAIN runs :
    /\ r1 < r2
    /\ runs[r1].key = runs[r2].key
    /\ runs[r1].pc = "done"
    /\ runs[r1].errors # {}

\* the subtitle id a track belongs to
SubIdOf(track) == track.id[2]

\* C6 as stated: a run that met any failure returns the empty list
C6_FailureGivesEmpty ==
  \A r \in DOMAIN runs :
    (runs[r].pc = "done" /\ runs[r].errors # {}) =>
      runs[r].result = Resolved(<<>>)

\* C6 amended: no call's promise rejects; a failed search gives the empty
\* list; an archive whose download or listing failed contributes no track,
\* while the tracks of the other archives are returned
C6_FailureContained ==
  /\ \A c \in DOMAIN calls : calls[c].result.settled => calls[c].result.ok
  /\ \A r \in DOMAIN runs :
       runs[r].pc = "done" =>
         /\ runs[r].result.settled /\ runs[r].result.ok
         /\ "search" \in runs[r].errors => runs[r].result.value = <<>>
         /\ \A n \in DOMAIN runs[r].result.value :
              SubIdOf(runs[r].result.value[n]) \notin runs[r].failedSubs

\* a run that lost one archive has returned the tracks of another
C6_Witness ==
  \E r \in DOMAIN runs :
    /\ runs[r].pc = "done"
    /\ runs[r].failedSubs # {}
    /\ runs[r].result.value # <<>>

(***************************************************************************)
(* Properties of the lanes                                                 *)
(***************************************************************************)
ExecutingOn(lane, members) ==
  {q \in DOMAIN reqs : /\ reqs[q].lane = lane
                       /\ reqs[q].st = "executing"
                       /\ reqs[q].lim \in members}

InstancesOf(apiKey) == {i \in DOMAIN lim : lim[i].apiKey = apiKey}

\* C7: for one credential at most one search executes at any instant
\* (checked under SpecRegistry)
C7_OneSearchPerCredential ==
  \A k \in ApiKeys : Cardinality(ExecutingOn("SEARCH", InstancesOf(k))) <= 1

\* C8: two consecutive execution starts of a limiter's search lane, first
\* attempts and retries alike, are at least 1000 ms apart
\* (checked under SpecSearch)
C8_SearchSpacing ==
  \A i \in DOMAIN lim :
    lim[i].minGap["SEARCH"] = None \/ lim[i].minGap["SEARCH"] >= 1000

\* a retry is executing on a lane that has started at least two executions
C8_Witness ==
  \E q \in DOMAIN reqs :
    /\ reqs[q].lane = "SEARCH"
    /\ reqs[q].st = "executing"
    /\ reqs[q].retries > 0
    /\ lim[reqs[q].lim].minGap["SEARCH"] # None

\* C9: on one search lane first attempts start in submission order: a
\* request that has started was preceded by every request submitted before it
\* (checked under SpecSearch)
C9_SearchFifo ==
  \A a, b \in DOMAIN reqs :
    (/\ a < b
     /\ reqs[a].lim = reqs[b].lim
     /\ reqs[a].lane = "SEARCH" /\ reqs[b].lane = "SEARCH"
     /\ reqs[b].first > 0)
      => (reqs[a].first > 0 /\ reqs[a].first < reqs[b].first)

\* two requests of one lane have started, the earlier one after a retry
C9_Witness ==
  \E a, b \in DOMAIN reqs :
    /\ a < b
    /\ reqs[a].lim = reqs[b].lim
    /\ reqs[a].lane = "SEARCH" /\ reqs[b].lane = "SEARCH"
    /\ reqs[a].retries > 0
    /\ reqs[b].first > 0

\* C10: a download lane never has more than 3 requests executing
\* (checked under SpecDownload)
C10_DownloadCap ==
  \A i \in DOMAIN lim :
    /\ Cardinality(ExecutingOn("DOWNLOAD", {i})) <= 3
    /\ lim[i].activeCount = Cardinality(ExecutingOn("DOWNLOAD", {i}))

\* three downloads execute and a fourth waits though the stagger has elapsed
C10_Witness ==
  \E i \in DOMAIN lim :
    /\ Cardinality(ExecutingOn("DOWNLOAD", {i})) = 3
    /\ lim[i].dqueue # <<>>
    /\ now - lim[i].lastStart >= staggerMs

\* C11: two consecutive execution starts of a limiter's download lane, and so
\* any two of its starts, are at least 200 ms apart, whatever the number of
\* active downloads (checked under SpecDownload)
C11_DownloadStagger ==
  \A i \in DOMAIN lim :
    lim[i].minGap["DOWNLOAD"] = None \/ lim[i].minGap["DOWNLOAD"] >= 200

\* a second download has started while fewer than 3 were active, and another
\* waits in the queue for the stagger to elapse
C11_Witness ==
  \E i \in DOMAIN lim :
    /\ lim[i].nStarts["DOWNLOAD"] = 2
    /\ lim[i].activeCount = 2
    /\ lim[i].dqueue # <<>>
    /\ now - lim[i].lastStart < staggerMs

\* the outcome classes of executeRequest's catch block
TransientCodes == {"ECONNRESET", "ETIMEDOUT", "ECONNABORTED"}

\* C12: a request is retried only after a transient failure and at most
\* twice: it is executed at most 3 times, a request waiting for a retry has
\* just failed transiently, and a third transient failure rejects it
\* (checked under SpecFailure, where both lanes are in use)
C12_RetryCeiling ==
  \A q \in DOMAIN reqs :
    /\ reqs[q].attempts <= 3
    /\ reqs[q].retries <= 2
    /\ reqs[q].retries > 0 =>
         (reqs[q].attempts >= reqs[q].retries /\ reqs[q].attempts <= reqs[q].retries + 1)
    /\ (reqs[q].st = "queued" /\ reqs[q].attempts > 0) =>
         (reqs[q].last \in TransientCodes /\ reqs[q].attempts <= 2)
    /\ (reqs[q].attempts = 3 /\ reqs[q].last \in TransientCodes
          /\ reqs[q].st # "executing") => reqs[q].st = "rejected"

\* a request has been rejected by the transient failure of its third attempt
C12_Witness ==
  \E q \in DOMAIN reqs :
    /\ reqs[q].st = "rejected"
    /\ reqs[q].attempts = 3
    /\ reqs[q].last \in TransientCodes

\* a request waiting in its queue for a retry
AwaitsRetry(q) == reqs[q].st = "queued" /\ reqs[q].retries > 0

\* a request waiting in its queue for its first attempt
AwaitsFirst(q) == reqs[q].st = "queued" /\ reqs[q].attempts = 0

SameLane(a, b) == reqs[a].lim = reqs[b].lim /\ reqs[a].lane = reqs[b].lane

LaneQueue(q) ==
  IF reqs[q].lane = "SEARCH" THEN lim[reqs[q].lim].squeue
  ELSE lim[reqs[q].lim].dqueue

PositionIn(queue, q) == CHOOSE n \in DOMAIN queue : queue[n] = q

\* C13: a retried request stands in its lane's queue before every request
\* that has not started yet, and no request starts its first attempt while a
\* request of its lane waits for a retry (checked under SpecDownload)
C13_RetryAtFront ==
  [][/\ \A a, b \in DOMAIN reqs :
          (a # b /\ SameLane(a, b) /\ AwaitsRetry(a) /\ AwaitsFirst(b))
            => /\ a \in Range(LaneQueue(a))
               /\ PositionIn(LaneQueue(a), a) < PositionIn(LaneQueue(b), b)
     /\ \A a, b \in DOMAIN reqs :
          (a # b /\ SameLane(a, b) /\ AwaitsRetry(a) /\ AwaitsFirst(b))
            => reqs'[b].attempts = 0]_vars

\* a retried request executes again while a request submitted before its
\* failure still waits for its first attempt
C13_Witness ==
  \E a, b \in DOMAIN reqs :
    /\ a # b /\ SameLane(a, b)
    /\ reqs[a].st = "executing" /\ reqs[a].retries > 0
    /\ AwaitsFirst(b)
    /\ lim[reqs[a].lim].nStarts[reqs[a].lane] = 2

InSomeQueue(q) ==
  \E i \in DOMAIN lim : q \in Range(lim[i].squeue) \cup Range(lim[i].dqueue)

\* the outcome of an attempt that failed, but not transiently
NonTransient(o) == o \notin TransientCodes \cup {"none", "ok", "corrupt"}

\* C14: a request whose latest attempt failed with a status (401, 429, 404
\* or any other) is rejected by that attempt, stands in no queue and is not
\* executed again (checked under SpecFailure)
C14_NoRetryOnStatus ==
  [][\A q \in DOMAIN reqs :
       /\ NonTransient(reqs[q].last) =>
            /\ reqs[q].st = "rejected"
            /\ ~InSomeQueue(q)
            /\ reqs'[q] = reqs[q]
       /\ (reqs[q].st = "executing" /\ NonTransient(reqs'[q].last)) =>
            /\ reqs'[q].st = "rejected"
            /\ reqs'[q].retries = reqs[q].retries
            /\ reqs'[q].attempts = reqs[q].attempts]_vars

\* a quota answer has rejected a download on its first attempt and the lookup
\* it belonged to has gone on
C14_Witness ==
  \E q \in DOMAIN reqs :
    /\ reqs[q].last = "429"
    /\ reqs[q].lane = "DOWNLOAD"
    /\ reqs[q].st = "rejected"
    /\ reqs[q].attempts = 1
    /\ \E p \in DOMAIN reqs : p > q /\ reqs[p].st = "executing"

\* a step in which subtitlesHandler runs for a request with a credential
HandlerStep ==
  /\ Len(calls') = Len(calls) + 1
  /\ calls'[Len(calls')].kind # "nokey"

\* C15: the handler's clear leaves no item that was queued on the shared
\* limiter in its queues: each is rejected with a cancellation, which its
\* caller receives, without being executed; only queued items are ever
\* cancelled, and a cancelled item never changes again
\* (checked under SpecFailure)
C15_ClearCancelsQueued ==
  [][/\ HandlerStep =>
          \A q \in QueuedOn(G) :
            /\ reqs'[q].st = "cancelled"
            /\ reqs'[q].attempts = reqs[q].attempts
            /\ q \notin Range(lim'[G].squeue) \cup Range(lim'[G].dqueue)
            /\ reqs[q].owner.kind = "run" =>
                 "cancel" \in runs'[reqs[q].owner.id].errors
     /\ \A q \in DOMAIN reqs :
          /\ reqs[q].st = "cancelled" => reqs'[q] = reqs[q]
          /\ (reqs'[q].st = "cancelled" /\ reqs[q].st # "cancelled") =>
               (reqs[q].st = "queued" /\ HandlerStep)]_vars

\* an item was cancelled before its first attempt, and a later item of the
\* same limiter executes
C15_Witness ==
  \E q, p \in DOMAIN reqs :
    /\ reqs[q].st = "cancelled" /\ reqs[q].attempts = 0
    /\ p > q /\ reqs[p].lim = reqs[q].lim
    /\ reqs[p].st = "executing"

\* C16: the handler's clear changes no item that is executing, nor the number
\* of active downloads; an executing item ends with its upstream outcome, and
\* a lookup records a cancellation only for an item that was cancelled in
\* its queue (checked under SpecFailure)
C16_ClearSparesExecuting ==
  [][/\ HandlerStep =>
          /\ \A q \in Executing : reqs'[q] = reqs[q]
          /\ lim'[G].activeCount = lim[G].activeCount
     /\ \A q \in Executing :
          reqs'[q].st # "executing" =>
            /\ reqs'[q].st \in {"resolved", "rejected", "queued"}
            /\ reqs'[q].last # "none"
            /\ reqs'[q].st = "resolved" <=> reqs'[q].last \in {"ok", "corrupt"}
     /\ \A r \in DOMAIN runs :
          "cancel" \in runs[r].errors =>
            \E q \in DOMAIN reqs :
              /\ reqs[q].owner = [kind |-> "run", id |-> r]
              /\ reqs[q].st = "cancelled"]_vars

\* a download that was executing during a call of the handler has resolved
\* and its archive is in the archive cache
C16_Witness ==
  \E c \in DOMAIN calls :
    \E q \in calls[c].active :
      /\ reqs[q].st = "resolved"
      /\ reqs[q].last = "ok"
      /\ ARCHIVE_CACHE # EmptyMap

\* C17: the registry never holds two limiters of one credential nor more than
\* maxLimiters limiters, and every limiter it holds is live
\* (checked under SpecRegistry)
C17_RegistryBounded ==
  /\ Len(limiters) <= maxLimiters
  /\ \A n, m \in DOMAIN limiters :
       n # m => /\ limiters[n] # limiters[m]
                /\ lim[limiters[n]].apiKey # lim[limiters[m]].apiKey
  /\ \A i \in Range(limiters) : lim[i].alive

\* the registry is full and holds the second limiter made for a credential
\* whose first one was destroyed
C17_Witness ==
  /\ Len(limiters) = maxLimiters
  /\ \E i \in Range(limiters), j \in DOMAIN lim :
       /\ ~lim[j].alive
       /\ lim[j].apiKey = lim[i].apiKey

\* C18: a limiter is destroyed only while it is in the registry, and either
\* it has been idle for more than idleTimeoutMs, or the registry is at its
\* ceiling, a limiter is created in the same step and no registered limiter
\* has a smaller lastUsed; a destroyed limiter leaves the registry and stays
\* destroyed (checked under SpecRegistry)
C18_DestroyedOnlyIdleOrOldest ==
  [][\A i \in DOMAIN lim :
       /\ ~lim[i].alive => ~lim'[i].alive
       /\ (lim[i].alive /\ ~lim'[i].alive) =>
            /\ i \in Range(limiters)
            /\ i \notin Range(limiters')
            /\ \/ now - lim[i].lastUsed > idleTimeoutMs
               \/ /\ Len(limiters) >= maxLimiters
                  /\ Len(lim') = Len(lim) + 1
                  /\ \A j \in Range(limiters) :
                       lim[i].lastUsed <= lim[j].lastUsed]_vars

\* more limiters were made than the registry can hold, so one was evicted,
\* and the registry was emptied afterwards, which only cleanup does
C18_Witness ==
  /\ limiters = <<>>
  /\ Len(lim) > maxLimiters + 1
  /\ \A i \in DOMAIN lim : i # G => ~lim[i].alive

\* the limiter has work: an item in a queue or in execution
HasWork(l) ==
  l.squeue # <<>> \/ l.dqueue # <<>> \/ l.processing \/ l.activeCount > 0

\* C19: a step that enqueues a request for one credential leaves unchanged
\* every limiter of another credential that has work, so that its queued
\* items are still started and none of its requests is delayed
C19_CredentialIsolation ==
  [][Len(reqs') = Len(reqs) + 1 =>
       \A i \in DOMAIN lim :
         (/\ lim[i].apiKey # lim'[reqs'[Len(reqs')].lim].apiKey
          /\ lim[i].alive
          /\ HasWork(lim[i])) => lim'[i] = lim[i]]_vars

\* the download requests made by caption-delivery requests for a subtitle id
ProxyDownloadsOf(subId) ==
  {q \in DOMAIN reqs :
     /\ reqs[q].owner.kind = "proxy"
     /\ proxies[reqs[q].owner.id].subId = subId}

\* C20: of the downloads made for one subtitle id at most one is pending at a
\* time, concurrent callers sharing it, and two that succeeded began at
\* least ARCHIVE_CACHE_TTL apart
C20_OneDownloadPerArchive ==
  \A p \in DOMAIN proxies :
    \A q1, q2 \in ProxyDownloadsOf(proxies[p].subId) :
      q1 < q2 =>
        /\ ~(/\ reqs[q1].st \in {"queued", "executing"}
             /\ reqs[q2].st \in {"queued", "executing"})
        /\ (reqs[q1].st = "resolved" /\ reqs[q2].st = "resolved") =>
             reqs[q2].start - reqs[q1].start >= ARCHIVE_CACHE_TTL

\* C21: a caption-delivery request that reads the archive cache reads an
\* entry younger than ARCHIVE_CACHE_TTL (checked under SpecArchive)
C21_ExpiredNeverUsed ==
  \A p \in DOMAIN proxies :
    proxies[p].age = None \/ proxies[p].age < ARCHIVE_CACHE_TTL

\* the caption-delivery request p has been answered
Responded(p) == "status" \in DOMAIN proxies[p].response

\* the download request q has ended without giving a readable archive
DownloadFailed(q) ==
  /\ reqs[q].lane = "DOWNLOAD"
  /\ \/ reqs[q].st = "rejected"
     \/ reqs[q].st = "resolved" /\ reqs[q].last = "corrupt"

\* C22: a lookup whose archive could not be downloaded or read gets no track
\* of that archive and its promise does not reject, while a caption-delivery
\* request whose download failed in the same way is answered with an error
\* status (checked under SpecArchive)
C22_FailureEmptyOrSurfaced ==
  /\ \A q \in DOMAIN reqs :
       (DownloadFailed(q) /\ reqs[q].owner.kind = "run") =>
         LET run == runs[reqs[q].owner.id] IN
         /\ run.failedSubs # {}
         /\ \A n \in DOMAIN run.acc : SubIdOf(run.acc[n]) \notin run.failedSubs
         /\ run.pc = "done" => (run.result.settled /\ run.result.ok)
  /\ \A c \in DOMAIN calls : calls[c].result.settled => calls[c].result.ok
  /\ \A q \in DOMAIN reqs :
       (DownloadFailed(q) /\ reqs[q].owner.kind = "proxy") =>
         LET x == proxies[reqs[q].owner.id] IN
         /\ Responded(reqs[q].owner.id)
         /\ x.response.status \in {"404", "500"}
         /\ x.response.status # "200"

\* a lookup ended with the empty list after its archive could not be read,
\* and a caption-delivery request for the same archive was answered 500
C22_Witness ==
  /\ \E r \in DOMAIN runs :
       /\ runs[r].pc = "done"
       /\ "parse" \in runs[r].errors
       /\ runs[r].result = Resolved(<<>>)
  /\ \E q \in DOMAIN reqs :
       /\ reqs[q].owner.kind = "proxy"
       /\ reqs[q].last = "corrupt"
       /\ proxies[reqs[q].owner.id].response.status = "500"

\* the caption key of a caption-delivery request
VttKeyOf(x) == <<x.subId, x.encodedSrtPath>>

\* C23: the caption cache holds at most VTT_CACHE_MAX_SIZE captions and its
\* order lists exactly the keys it holds; inserting a new key into a full
\* cache removes the first key of the order and no other, and puts the new
\* key last; a read that hits moves its key last and changes nothing else;
\* apart from eviction a key leaves the cache only once it has expired
\* (checked under SpecCaption)
C23_CaptionLru ==
  [][/\ Cardinality(DOMAIN vttStore') <= VTT_CACHE_MAX_SIZE
     /\ Range(vttOrder') = DOMAIN vttStore'
     /\ Len(vttOrder') = Cardinality(DOMAIN vttStore')
     /\ \A k \in DOMAIN vttStore' \ DOMAIN vttStore :
          vttOrder' = Append(IF Len(vttOrder) >= VTT_CACHE_MAX_SIZE
                             THEN Tail(vttOrder) ELSE vttOrder, k)
     /\ DOMAIN vttStore' \subseteq DOMAIN vttStore =>
          \A k \in DOMAIN vttStore \ DOMAIN vttStore' :
            now - vttStore[k].timestamp > VTT_TTL
     /\ Len(proxies') = Len(proxies) + 1 =>
          LET p == Len(proxies')
              k == VttKeyOf(proxies'[p])
          IN IF k \in DOMAIN vttStore /\ now - vttStore[k].timestamp <= VTT_TTL
             THEN /\ vttStore' = vttStore
                  /\ vttOrder' = Append(Remove(vttOrder, k), k)
                  /\ proxies'[p].response =
                       [status |-> "200", body |-> vttStore[k].vtt]
                  /\ reqs' = reqs
             ELSE \/ proxies'[p].downloads = 1
                  \/ Has(ARCHIVE_CACHE, proxies'[p].subId)]_vars

\* the cache is full and, before any caption could expire, a caption that
\* was delivered is no longer in it
C23_Witness ==
  /\ Len(vttOrder) = VTT_CACHE_MAX_SIZE
  /\ \E p \in DOMAIN proxies :
       /\ Responded(p)
       /\ proxies[p].response.status = "200"
       /\ VttKeyOf(proxies[p]) \notin DOMAIN vttStore
       /\ now - StartTime <= VTT_TTL

\* the status the caption-delivery path owes to a failed download
StatusFor(o) == IF o \in {"401", "404", "429"} THEN o ELSE "500"

\* C24: a caption-delivery request whose download failed is answered 404,
\* 401 or 429 when the upstream answered so, and 500 after any other failure
\* (checked under SpecStatus)
C24_StatusReflectsCause ==
  \A q \in DOMAIN reqs :
    (DownloadFailed(q) /\ reqs[q].owner.kind = "proxy") =>
      /\ Responded(reqs[q].owner.id)
      /\ proxies[reqs[q].owner.id].response.status = StatusFor(reqs[q].last)

\* C25: calculateMatchScore returns an integer from 0 to 100, and 0 when
\* either filename is empty (checked under SpecPure)
C25_ScoreRange ==
  applied.fn = "calculateMatchScore" =>
    /\ applied.result \in 0 .. 100
    /\ (applied.args[1] = <<>> \/ applied.args[2] = <<>>) => applied.result = 0

\* a pair that matches in group, in source and in title has scored 100
C25_Witness ==
  /\ applied.fn = "calculateMatchScore"
  /\ applied.args[1] # <<>>
  /\ applied.result = 100

\* the table of upstream language codes, as pairs
LanguageTable ==
  {<<"ro", "ron">>, <<"en", "eng">>, <<"ita", "ita">>, <<"fra", "fra">>,
   <<"ger", "deu">>, <<"ung", "hun">>, <<"gre", "ell">>, <<"por", "por">>,
   <<"spa", "spa">>, <<"alt", "und">>}

KeyParts(c) ==
  <<parseStremioId(c.id).imdbId,
    IF IsSeries(c) THEN <<parseStremioId(c.id).season, parseStremioId(c.id).episode>>
    ELSE <<>>,
    IF c.hasLanguages THEN Range(c.languages) ELSE {}>>

\* C27: two requests have the same key exactly when they agree in title, in
\* episode (for series requests) and in their language sets
C27_KeyBySortedLanguages ==
  applied.fn = "cacheKey" =>
    (applied.result[1] = applied.result[2]
       <=> KeyParts(applied.args[1]) = KeyParts(applied.args[2]))

\* the path inside the archive that a returned track points to
PathOf(track) == Base64Decode(track.url[5])

\* C28: the tracks a lookup returns are in descending order of the scores of
\* their paths against the video filename of that lookup's own request
C28_OrderByOwnFilename ==
  \A c \in DOMAIN calls :
    (calls[c].result.settled /\ calls[c].result.ok) =>
      LET list == calls[c].result.value IN
      \A n, m \in DOMAIN list :
        n < m =>
          calculateMatchScore(calls[c].req.filename, PathOf(list[n]))
            >= calculateMatchScore(calls[c].req.filename, PathOf(list[m]))

\* the value of the decimal digits of text from position i up to position j
RECURSIVE DigitsValue(_, _, _)
DigitsValue(text, i, j) ==
  IF i >= j THEN 0
  ELSE 10 * DigitsValue(text, i, j - 1)
         + (CHOOSE n \in 0 .. 9 : DecimalDigits[n + 1] = text[j - 1])

\* the numbers written in the text: the runs of digits that no digit
\* precedes or follows
NumbersOf(text) ==
  {r \in Positions(text) \X Positions(text) :
     /\ DigitsBetween(text, r[1], r[2])
     /\ ~DigitAt(text, r[1] - 1)
     /\ ~DigitAt(text, r[2])}

\* the numbers r1 and r2 of the text are the season and the episode of one
\* season-episode notation: S<r1>E<r2>, <r1>x<r2>, or a season word before
\* r1 and an episode word before r2
SeasonEpisodeNotation(text, r1, r2) ==
  \/ /\ LiteralAt(text, r1[1] - 1, <<"s">>)
     /\ LiteralAt(text, r1[2], <<"e">>)
     /\ r2[1] = r1[2] + 1
  \/ /\ LiteralAt(text, r1[2], <<"x">>)
     /\ r2[1] = r1[2] + 1
  \/ /\ \E kw \in seasonKeywords, i \in DOMAIN text :
          LiteralAt(text, i, kw) /\ SpacesBetween(text, i + Len(kw), r1[1])
     /\ \E ekw \in episodeKeywords, m \in DOMAIN text :
          /\ m >= r1[2]
          /\ LiteralAt(text, m, ekw)
          /\ SpacesBetween(text, m + Len(ekw), r2[1])

\* C30: a text with a season indicator matches only if the requested season
\* number and the requested episode number are the two numbers of one
\* season-episode notation of the text
C30_SeasonAndEpisodeAppear ==
  (/\ applied.fn = "matchesEpisode"
   /\ applied.args[1] # <<>>
   /\ applied.args[3] # None
   /\ seasonIndicatorRegex(ToLowerCase(applied.args[1]))
   /\ applied.result = TRUE)
    => LET text == ToLowerCase(applied.args[1]) IN
       \E r1, r2 \in NumbersOf(text) :
         /\ SeasonEpisodeNotation(text, r1, r2)
         /\ DigitsValue(text, r1[1], r1[2]) = applied.args[2]
         /\ DigitsValue(text, r2[1], r2[2]) = applied.args[3]

\* `${sub.description || ""} ${sub.title || ""}`
SearchText(sub) == sub.description \o <<" ">> \o sub.title

\* the filter step keeps the catalog entry sub for the request c
KeptByFilter(sub, c) ==
  /\ (c.hasLanguages /\ Len(c.languages) > 0) => sub.language \in Range(c.languages)
  /\ IsSeries(c) => matchesEpisode(SearchText(sub), parseStremioId(c.id).season,
                                   parseStremioId(c.id).episode)

\* C29: a lookup downloads the archives of those catalog entries only that
\* the filter step keeps: entries in a requested language and, for a series
\* request, entries whose description and title match the episode
C29_OnlyKeptEntriesDownloaded ==
  \A r \in DOMAIN runs :
    runs[r].pc = "download" => KeptByFilter(Head(runs[r].todo), runs[r].config)

\* the number of positions of text at which P holds
Count(text, P(_, _)) == Cardinality({i \in DOMAIN text : P(text, i)})

DottedTimestampAt(text, i) ==
  /\ i + 11 <= Len(text)
  /\ text[i + 8] = "."
  /\ TimestampAt([text EXCEPT ![i + 8] = ","], i)

CrLfAt(text, i) == i + 1 <= Len(text) /\ text[i] = "\r" /\ text[i + 1] = "\n"

\* a CR that stands before a CRLF
CrCrLfAt(text, i) == text[i] = "\r" /\ CrLfAt(text, i + 1)

LfAt(text, i) == text[i] = "\n"

\* C31: the transcoded text begins with WEBVTT and a blank line; after it no
\* comma timestamp is left, there are as many dotted timestamps as the input
\* has comma timestamps, every CRLF of the input has become an LF (a CR
\* before a CRLF of the input is kept as it is), there are as many line ends
\* as the input has, and only the CRs of the CRLFs are gone
C31_TranscodeToWebVtt ==
  applied.fn = "Transcode" =>
    LET input == applied.args[1]
        out == applied.result
        body == SubSeq(out, 9, Len(out))
    IN /\ Len(out) >= 8
       /\ SubSeq(out, 1, 8) = <<"W", "E", "B", "V", "T", "T", "\n", "\n">>
       /\ Count(body, TimestampAt) = 0
       /\ Count(body, DottedTimestampAt) = Count(input, TimestampAt)
       /\ Count(body, CrLfAt) = Count(input, CrCrLfAt)
       /\ Count(body, LfAt) = Count(input, LfAt)
       /\ Len(body) = Len(input) - Count(input, CrLfAt)

\* an input of two comma timestamps with a CRLF between them was transcoded
C31_Witness ==
  /\ applied.fn = "Transcode"
  /\ Count(applied.args[1], TimestampAt) = 2
  /\ CrLfAt(applied.args[1], 13)
  /\ Count(SubSeq(applied.result, 9, Len(applied.result)), DottedTimestampAt) = 2

\* C32: a caption request that hits the caption cache is answered with the
\* cached caption, leaves the archive cache as it is and enqueues nothing; a
\* request that misses it while the archive is cached is answered from the
\* cached bytes at once and enqueues nothing (checked under SpecCaption)
C32_CachedBytesReused ==
  [][Len(proxies') = Len(proxies) + 1 =>
       LET p == Len(proxies')
           x == proxies'[p]
           key == VttKeyOf(x)
       IN IF VttHit(Heap, key)
          THEN /\ x.response = [status |-> "200", body |-> vttStore[key].vtt]
               /\ x.downloads = 0
               /\ UNCHANGED <<ARCHIVE_CACHE, reqs, lim, limiters>>
          ELSE Has(ARCHIVE_CACHE, x.subId) =>
                 /\ x.downloads = 0
                 /\ UNCHANGED <<ARCHIVE_CACHE, reqs, lim, limiters>>
                 /\ LET buffer == ARCHIVE_CACHE[x.subId].buffer
                        srtPath == Base64Decode(x.encodedSrtPath)
                    IN HasEntry(buffer, srtPath) =>
                         x.response = [status |-> "200",
                                       body |-> Transcode(ExtractSrtFile(buffer, srtPath))]]_vars

\* within the lifetime of a caption, the second request repeated the first
\* and the third asked for another entry of the same archive; neither made a
\* download
C32_Witness ==
  /\ Len(proxies) >= 3
  /\ now - StartTime <= VTT_TTL
  /\ VttKeyOf(proxies[2]) = VttKeyOf(proxies[1])
  /\ proxies[3].subId = proxies[1].subId
  /\ VttKeyOf(proxies[3]) # VttKeyOf(proxies[1])
  /\ \A p \in {2, 3} :
       /\ proxies[p].downloads = 0
       /\ Responded(p)
       /\ proxies[p].response.status = "200"

\* C33: the track list a run produces is in non-increasing order of the
\* scores of its paths against the video filename of the run (checked under
\* SpecOrder)
C33_RunSortedByScore ==
  \A r \in DOMAIN runs :
    (runs[r].result.settled /\ runs[r].result.ok) =>
      LET list == runs[r].result.value IN
      \A n, m \in DOMAIN list :
        n < m =>
          calculateMatchScore(runs[r].filename, PathOf(list[n]))
            >= calculateMatchScore(runs[r].filename, PathOf(list[m]))

\* a run for the video X-B.mkv has put the path of the second archive before
\* the path of the first, whose score is lower
C33_Witness ==
  \E r \in DOMAIN runs :
    /\ runs[r].filename = Video2
    /\ runs[r].result.settled /\ runs[r].result.ok
    /\ Len(runs[r].result.value) = 2
    /\ PathOf(runs[r].result.value[1]) = PathB
    /\ PathOf(runs[r].result.value[2]) = PathA
    /\ calculateMatchScore(Video2, PathB) > calculateMatchScore(Video2, PathA)

\* C34: every track a series request is answered with points to a path that
\* matches the requested season and episode (checked under SpecSeries)
C34_OnlyPathsOfTheEpisode ==
  \A c \in DOMAIN calls :
    (IsSeries(calls[c].req) /\ calls[c].result.settled /\ calls[c].result.ok) =>
      \A n \in DOMAIN calls[c].result.value :
        matchesEpisode(PathOf(calls[c].result.value[n]),
                       parseStremioId(calls[c].req.id).season,
                       parseStremioId(calls[c].req.id).episode)

\* a series request was answered with a track of an archive that bundles two
\* episodes, and with no track for the other episode
C34_Witness ==
  \E c \in DOMAIN calls :
    /\ IsSeries(calls[c].req)
    /\ calls[c].result.settled /\ calls[c].result.ok
    /\ \E n \in DOMAIN calls[c].result.value : calls[c].result.value[n].url[4] = 3
    /\ Has(ARCHIVE_CACHE, 3)
    /\ Len(ARCHIVE_CACHE[3].srtFiles) = 2
    /\ Has(ARCHIVE_CACHE, 4)
    /\ Len(calls[c].result.value) = 1

\* C35: a request is settled once and for good, by the attempt that was
\* executing: resolved by an answer, rejected by a failure that is not
\* retried; an attempt that is retried settles nothing, puts the request back
\* into its queue and leaves every caller as it was; a caller resumes in the
\* step that settles its request (checked under SpecDownload)
C35_SettledOnceByFinalAttempt ==
  [][\A q \in DOMAIN reqs :
       LET r == reqs[q]
           r2 == reqs'[q]
           Settled == {"resolved", "rejected"}
       IN /\ r.st \in Settled => r2 = r
          /\ (r.st \notin Settled /\ r2.st \in Settled) =>
               /\ r.st = "executing"
               /\ r2.attempts = r.attempts /\ r2.retries = r.retries
               /\ r2.st = "resolved" <=> Succeeds(r2.last)
               /\ r2.st = "rejected" =>
                    ~(r2.last \in TransientCodes /\ r.retries < maxRetries)
               /\ r.owner.kind = "proxy" =>
                    (~Responded(r.owner.id) /\ Responded(r.owner.id)')
          /\ (r.st = "executing" /\ r2.st = "queued") =>
               /\ r2.last \in TransientCodes
               /\ r2.retries = r.retries + 1
               /\ q \in Range(lim'[r.lim].dqueue) \cup Range(lim'[r.lim].squeue)
               /\ proxies' = proxies
          /\ (r.owner.kind = "proxy" /\ r2.st \notin Settled) =>
               ~Responded(r.owner.id)']_vars

\* a download was resolved by its third attempt and its caller was answered
\* with the caption
C35_Witness ==
  \E q \in DOMAIN reqs :
    /\ reqs[q].st = "resolved"
    /\ reqs[q].retries = 2
    /\ reqs[q].attempts = 3
    /\ reqs[q].owner.kind = "proxy"
    /\ Responded(reqs[q].owner.id)
    /\ proxies[reqs[q].owner.id].response.status = "200"

\* the pending operation of request q has been resolved or rejected
IsSettled(q) ==
  q \in DOMAIN reqs /\ reqs[q].st \in {"resolved", "rejected", "cancelled"}

\* C36: every request that was enqueued is settled in the end (checked under
\* SpecLive, whose timers and upstream are fair)
C36_EverySettled ==
  \A q \in 1 .. MaxLiveReqs : (q \in DOMAIN reqs) ~> IsSettled(q)


\* C37: the delivery URLs of the tracks a lookup receives embed that request's
\* own base URL and credential, also when the lookup is answered from CACHE or
\* by the fetchTask of another call
C37_OwnCredentialInUrls ==
  \A c \in DOMAIN calls :
    calls[c].result.settled /\ calls[c].result.ok =>
      \A n \in DOMAIN calls[c].result.value :
        /\ calls[c].result.value[n].url[1] = calls[c].req.baseUrl
        /\ calls[c].result.value[n].url[2] = calls[c].req.apiKey

\* C38: CACHE receives an entry only from a fetchTask in which the search and
\* every archive resolution succeeded: a step that writes CACHE for a key is
\* the end of a run for that key that met no search failure, no download or
\* parse failure and no cancellation
C38_CacheOnlyFromCleanRuns ==
  [][\A key \in DOMAIN CACHE' :
       (key \notin DOMAIN CACHE \/ CACHE'[key] # CACHE[key]) =>
         \E r \in DOMAIN runs :
           /\ runs[r].pc # "done" /\ runs'[r].pc = "done"
           /\ runs'[r].key = key
           /\ runs'[r].errors = {}]_vars

\* C39: the external ids of the tracks of one lookup result are pairwise
\* distinct
C39_TrackIdsDistinct ==
  \A c \in DOMAIN calls :
    calls[c].result.settled /\ calls[c].result.ok =>
      \A m, n \in DOMAIN calls[c].result.value :
        m # n => calls[c].result.value[m].id # calls[c].result.value[n].id

\* C40: in every state the download lane's activeCount of a limiter is the
\* number of its download executions that have started and have neither
\* finished nor gone back into the queue; it is never negative and it is 0
\* whenever no download executes (checked under SpecDownload)
C40_ActiveCountExact ==
  \A i \in DOMAIN lim :
    LET running == {q \in DOMAIN reqs : /\ reqs[q].lim = i
                                         /\ reqs[q].lane = "DOWNLOAD"
                                         /\ reqs[q].st = "executing"}
    IN /\ lim[i].activeCount >= 0
       /\ lim[i].activeCount = Cardinality(running)
       /\ running = {} => lim[i].activeCount = 0

\* downloads of one lane have ended in a success, in a failure and after a
\* retry, one is waiting for its retry, and none executes
C40_Witness ==
  \E i \in DOMAIN lim :
    /\ lim[i].activeCount = 0
    /\ \E q \in DOMAIN reqs :
         reqs[q].lim = i /\ reqs[q].lane = "DOWNLOAD" /\ reqs[q].st = "resolved"
    /\ \E q \in DOMAIN reqs :
         reqs[q].lim = i /\ reqs[q].lane = "DOWNLOAD" /\ reqs[q].st = "rejected"
    /\ \E q \in DOMAIN reqs :
         /\ reqs[q].lim = i /\ reqs[q].lane = "DOWNLOAD"
         /\ reqs[q].st = "queued" /\ reqs[q].retries > 0

====
